---- MODULE Spec2Model ----
(***************************************************************************)
(* Quiz session of maviyaattar/Quiz: join -> answer -> countdown ->        *)
(* submit -> results, with the anti-cheat monitor, and the dashboard on    *)
(* which quizzes are created and deleted.  The repository holds three      *)
(* variants of the same front end:                                         *)
(*   "local"   src/app.js 1-940        localStorage, synchronous           *)
(*   "memory"  src/app.js 941-1899     in-memory mockStorage, awaited      *)
(*   "backend" src/unnamed/part_000    fetch()/mockBackend, awaited        *)
(* Every handler runs to completion (single-threaded JavaScript); an await *)
(* splits a handler into a call step and a resume step.                    *)
(***************************************************************************)
EXTENDS Integers, Sequences, FiniteSets, Bags, TLC

\* ---------------------------------------------------------------- bounds
NumQuestions == 2      \* questions of the sample quiz "123456"
NumOptions == 2        \* options of every question
MaxTime == 1           \* time limit of the sample quizzes, in seconds
MaxOverrun == 1        \* the countdown is followed down to -MaxOverrun
MaxJoins == 2          \* startQuiz calls followed in one behaviour
MaxTabSwitch == 4      \* visibility losses followed per attempt
MaxTimeouts == 2       \* pending forced-submit timeouts followed
MaxSubmitting == 1     \* submitQuiz calls suspended at an await
MaxAnswered == 1       \* attempts in which options are selected
MaxDeclined == 1       \* declined confirmations followed per attempt
MaxItems == 1          \* question items on the create-test form
MaxQuestionCount == 2  \* state.questionCount is followed up to this
MaxOptions == 3        \* options of a question item on the form
MaxQuizzes == 2        \* stored quizzes
MaxRequests == 1       \* handleCreateTest / deleteTest calls at an await
MaxSubmissions == 3    \* stored submissions a leaderboard is built from
MaxUsers == 3          \* stored accounts
MaxPending == 2        \* handleLogin / handleRegister calls at an await

MaxTotal == 40         \* questions of the largest quiz whose result is shown
MsPerSecond == 2       \* clock units per second (1000 in the source)

Variants == {"local", "memory", "backend"}

VARIABLES
    variant,      \* which of the three front ends runs
    state,        \* const state = {...}
    timerSeq,     \* number of setInterval calls so far (ids are 1, 2, ...)
    intervals,    \* ids of the countdown intervals that are live
    timeouts,     \* pending setTimeout(() => submitQuiz(true), 2000)
    fetching,     \* bag of fetchQuiz calls suspended at an await
    submitting,   \* bag of submitQuiz calls suspended at an await
    storage,      \* localStorage / mockStorage / the backend's data
    display,      \* what the results page shows
    alert,        \* the alert showAlert raised last, <<>> before the first
    event,        \* the copy / paste / keydown event delivered last, with
                  \* its defaultPrevented; <<>> before the first
    author,       \* the dashboard of the logged-in creator:
                  \*   questionCount   state.questionCount
                  \*   questions       the .question-item divs of the form
                  \*   myQuizzes       localStorage 'myQuizzes'
                  \*   requests        bag of handleCreateTest / deleteTest
                  \*                   calls suspended at an await
    hist          \* history of the current attempt (observation only):
                  \*   recorded        results stored since startQuiz
                  \*   timerSubmits    submitQuiz(true) calls of the countdown
                  \*   forcedRequests  forced submits the monitor scheduled
                  \*   gateScore       score of state.answers when the last
                  \*                   submitQuiz passed the confirmation gate
                  \*   frozen          the last stored score was gateScore
                  \*   declined        confirm() dialogs of submitQuiz the
                  \*                   user has declined

vars == <<variant, state, timerSeq, intervals, timeouts, fetching,
          submitting, storage, display, alert, event, author, hist>>

Max(a, b) == IF a >= b THEN a ELSE b

\* ------------------------------------------------------------ sample data
\* initializeMockData / mockStorage.quizzes, scaled to the bounds
SampleQuestions(n) ==
    [i \in 1..n |-> [text |-> i, options |-> NumOptions,
                     correctAnswer |-> i % NumOptions]]

EndTimeMs == MaxTime * MsPerSecond

SampleQuizzes ==
    << [code |-> <<"1", "2", "3", "4", "5", "6">>, timeLimit |-> MaxTime, isActive |-> TRUE,
        endTime |-> EndTimeMs, questions |-> SampleQuestions(NumQuestions)] >>

\* what the user types into the form fields, character by character
CodeInputs ==
    { <<"1", "2", "3", "4", "5", "6">>, <<"1", "2", "3", "4", "5", "6", " ">>,
      <<"0", "0", "0", "0", "0", "0">>, <<" ", "1", "2", "3", "4", "5">> }
ParticipantInputs ==
    { [name |-> <<"A", "n", "n", " ">>, roll |-> <<"1">>,
       branch |-> <<"C", "S">>] }
\* forms with a field of blanks only, empty once trimmed
BlankInputs ==
    { [name |-> <<" ">>, roll |-> <<"1">>, branch |-> <<"C", "S">>],
      [name |-> <<"A", "n", "n">>, roll |-> <<" ">>, branch |-> <<"C", "S">>],
      [name |-> <<"A", "n", "n">>, roll |-> <<"1">>, branch |-> <<" ", " ">>] }
NowInputs == 0..(EndTimeMs + 1)

DEFAULT_QUIZ_TIME_SECONDS == MaxTime

\* the stored accounts: sampleUsers / mockStorage.users
SampleUsers ==
    << [email |-> "demo@example.com", password |-> "demo123",
        name |-> "Demo User"] >>

\* the creator's side of the program before anyone has logged in: the
\* stored accounts (users), state.currentUser and the session saved in
\* localStorage (<<>> is none), the create-test form (questionCount,
\* questions), the tests listed on the dashboard (myQuizzes) and the
\* handlers suspended at an await (requests)
authorStart ==
    [questionCount |-> 0, questions |-> <<>>, myQuizzes |-> <<>>,
     requests |-> EmptyBag, users |-> SampleUsers, currentUser |-> <<>>,
     session |-> <<>>]

\* what a login keeps of a stored account: `{ email: user.email, name: user.name }`
userData(user) == [email |-> user.email, name |-> user.name]

\* the creator's side once the account `user` is logged in: state.currentUser
\* and the session saved in localStorage (userData, and with it the token in
\* the memory and backend variants)
loggedIn(a, user) ==
    [a EXCEPT !.currentUser = <<userData(user)>>,
              !.session = <<userData(user)>>]

\* ------------------------------------------------------------------ Init
Init ==
    /\ variant \in Variants
    /\ state = [currentPage |-> "landingPage",
                currentQuiz |-> <<>>,
                quizCode |-> <<>>,
                questions |-> <<>>,
                currentQuestionIndex |-> 0,
                answers |-> <<>>,
                timer |-> 0,
                timeRemaining |-> 0,
                tabSwitchCount |-> 0,
                participant |-> <<>>]
    /\ timerSeq = 0
    /\ intervals = {}
    /\ timeouts = 0
    /\ fetching = EmptyBag
    /\ submitting = EmptyBag
    /\ storage = [quizzes |-> SampleQuizzes, results |-> <<>>,
                  participants |-> <<>>]
    /\ display = <<>>
    /\ alert = <<>>
    /\ event = <<>>
    /\ author = authorStart
    /\ hist = [recorded |-> 0, timerSubmits |-> 0, forcedRequests |-> 0,
               gateScore |-> 0, frozen |-> TRUE, declined |-> 0]

\* ------------------------------------------------------ pure helpers
\* Array.prototype.find: the first quiz with the code, <<>> when none
find(quizzes, code) ==
    LET hits == {i \in 1..Len(quizzes) : quizzes[i].code = code}
    IN  IF hits = {} THEN <<>>
        ELSE <<quizzes[CHOOSE i \in hits : \A j \in hits : i <= j]>>

\* String.prototype.trim on a sequence of characters
Whitespace == {" "}

RECURSIVE trimStart(_)
trimStart(s) ==
    IF s # <<>> /\ Head(s) \in Whitespace THEN trimStart(Tail(s)) ELSE s

RECURSIVE trimEnd(_)
trimEnd(s) ==
    IF s # <<>> /\ s[Len(s)] \in Whitespace
    THEN trimEnd(SubSeq(s, 1, Len(s) - 1)) ELSE s

trim(s) == trimEnd(trimStart(s))

\* quiz.questions.map(q => ({text, options}))
sanitize(questions) ==
    [i \in 1..Len(questions) |->
        [text |-> questions[i].text, options |-> questions[i].options]]

\* ---- Number arithmetic: a Number is bits * 2^exp, bits the significand as a
\* sequence of binary digits, least significant first (<<>> is 0), kept to
\* MantissaBits digits by rounding to nearest, ties to even
MantissaBits == 53

RECURSIVE bitsValue(_)
bitsValue(bits) ==
    IF bits = <<>> THEN 0 ELSE Head(bits) + 2 * bitsValue(Tail(bits))

RECURSIVE incBits(_)
incBits(bits) ==
    IF bits = <<>> THEN <<1>>
    ELSE IF Head(bits) = 0 THEN <<1>> \o Tail(bits)
    ELSE <<0>> \o incBits(Tail(bits))

RECURSIVE addBits(_, _, _)
addBits(a, b, carry) ==
    IF a = <<>> /\ b = <<>> THEN (IF carry = 1 THEN <<1>> ELSE <<>>)
    ELSE LET x == IF a = <<>> THEN 0 ELSE Head(a)
             y == IF b = <<>> THEN 0 ELSE Head(b)
             sum == x + y + carry
         IN  <<sum % 2>> \o addBits(IF a = <<>> THEN a ELSE Tail(a),
                                    IF b = <<>> THEN b ELSE Tail(b),
                                    sum \div 2)

shiftLeft(bits, n) == [i \in 1..n |-> 0] \o bits

\* the exact value bits * 2^exp rounded to a Number
roundToNumber(bits, exp) ==
    IF Len(bits) <= MantissaBits THEN [bits |-> bits, exp |-> exp]
    ELSE LET d == Len(bits) - MantissaBits
             kept == SubSeq(bits, d + 1, Len(bits))
             sticky == \E i \in 1..(d - 1) : bits[i] = 1
             up == bits[d] = 1 /\ (sticky \/ kept[1] = 1)
         IN  [bits |-> IF up THEN incBits(kept) ELSE kept, exp |-> exp + d]

\* the least k with s * 2^k >= t
RECURSIVE shiftCount(_, _)
shiftCount(s, t) == IF s >= t THEN 0 ELSE 1 + shiftCount(2 * s, t)

\* n more quotient digits of r / t, r < t
RECURSIVE longDivision(_, _, _, _)
longDivision(acc, r, t, n) ==
    IF n = 0 THEN [bits |-> acc, rem |-> r]
    ELSE LET bit == IF 2 * r >= t THEN 1 ELSE 0
         IN  longDivision(<<bit>> \o acc, 2 * r - bit * t, t, n - 1)

\* s / t for integers 0 <= s <= t, t > 0
numberDivide(s, t) ==
    IF s = 0 THEN [bits |-> <<>>, exp |-> 0]
    ELSE LET k == shiftCount(s, t)
             q == longDivision(<<1>>, s * 2^k - t, t, MantissaBits - 1)
             up == 2 * q.rem > t \/ (2 * q.rem = t /\ q.bits[1] = 1)
         IN  [bits |-> IF up THEN incBits(q.bits) ELSE q.bits,
              exp |-> 0 - (k + MantissaBits - 1)]

\* x * 100, 100 = 64 + 32 + 4
numberTimes100(x) ==
    IF x.bits = <<>> THEN x
    ELSE roundToNumber(addBits(addBits(shiftLeft(x.bits, 6),
                                       shiftLeft(x.bits, 5), 0),
                               shiftLeft(x.bits, 2), 0), x.exp)

\* Math.round(x) for 0 <= x with x.exp < 0: the nearest integer, a half
\* rounded up
mathRound(x) ==
    LET f == 0 - x.exp
        n == Len(x.bits)
    IN  (IF n > f THEN bitsValue(SubSeq(x.bits, f + 1, n)) ELSE 0)
        + (IF n >= f THEN x.bits[f] ELSE 0)

\* Math.round((score / total) * 100), 0 <= score <= total, total > 0
roundedRatio(score, total) ==
    IF score = 0 THEN 0
    ELSE mathRound(numberTimes100(numberDivide(score, total)))

\* the same, tabulated once for the totals up to MaxTotal
percentageTable ==
    [total \in 1..MaxTotal |->
        [score \in 0..total |-> roundedRatio(score, total)]]

percentage(score, total) ==
    IF total \in DOMAIN percentageTable /\ score \in DOMAIN percentageTable[total]
    THEN percentageTable[total][score]
    ELSE roundedRatio(score, total)

\* the answers object as an array of {questionIndex, selectedOption},
\* integer keys in ascending order (Object.entries)
RECURSIVE entriesFrom(_, _)
entriesFrom(answers, keys) ==
    IF keys = {} THEN <<>>
    ELSE LET k == CHOOSE x \in keys : \A y \in keys : x <= y
         IN  <<[questionIndex |-> k, selectedOption |-> answers[k]]>>
             \o entriesFrom(answers, keys \ {k})

entries(answers) == entriesFrom(answers, DOMAIN answers)

\* scoreLocalFrom without the `userAnswer !== undefined` test, an unanswered
\* question read as option 0
RECURSIVE scoreLocalFromNoUndefinedTest(_, _, _)
scoreLocalFromNoUndefinedTest(questions, answers, index) ==
    IF index >= Len(questions) THEN 0
    ELSE (IF (IF index \in DOMAIN answers THEN answers[index] ELSE 0)
                 = questions[index + 1].correctAnswer
          THEN 1 ELSE 0)
         + scoreLocalFromNoUndefinedTest(questions, answers, index + 1)

\* submitQuiz of the local variant: state.questions.forEach((question, index))
RECURSIVE scoreLocalFrom(_, _, _)
scoreLocalFrom(questions, answers, index) ==
    IF index >= Len(questions) THEN 0
    ELSE (IF index \in DOMAIN answers
             /\ answers[index] = questions[index + 1].correctAnswer
          THEN 1 ELSE 0)
         + scoreLocalFrom(questions, answers, index + 1)

scoreLocal(questions, answers) == scoreLocalFrom(questions, answers, 0)

RECURSIVE answersArrayLocalFrom(_, _, _)
answersArrayLocalFrom(questions, answers, index) ==
    IF index >= Len(questions) THEN <<>>
    ELSE (IF index \in DOMAIN answers
          THEN <<[questionIndex |-> index, selectedOption |-> answers[index]]>>
          ELSE <<>>)
         \o answersArrayLocalFrom(questions, answers, index + 1)

answersArrayLocal(questions, answers) ==
    answersArrayLocalFrom(questions, answers, 0)

\* submitQuiz of the memory variant and mockSubmitQuiz taking the k-th
\* submitted entry for the answer to the k-th question
RECURSIVE scoreEntriesByPosition(_, _)
scoreEntriesByPosition(questions, arr) ==
    IF arr = <<>> THEN 0
    ELSE (IF Len(arr) \in DOMAIN questions
             /\ questions[Len(arr)].correctAnswer
                    = arr[Len(arr)].selectedOption
          THEN 1 ELSE 0)
         + scoreEntriesByPosition(questions, SubSeq(arr, 1, Len(arr) - 1))

\* submitQuiz of the memory variant and mockSubmitQuiz: one pass over the
\* submitted entries, `question && question.correctAnswer === selected`
RECURSIVE scoreEntries(_, _)
scoreEntries(questions, arr) ==
    IF arr = <<>> THEN 0
    ELSE (IF Head(arr).questionIndex + 1 \in DOMAIN questions
             /\ questions[Head(arr).questionIndex + 1].correctAnswer
                    = Head(arr).selectedOption
          THEN 1 ELSE 0)
         + scoreEntries(questions, Tail(arr))

\* showAlert(message, type): the alert on display
showAlert(message, type) == <<[message |-> message, type |-> type]>>

\* ---------------------------------------------------- state transformers
navigateTo(st, pageId) == [st EXCEPT !.currentPage = pageId]

\* loadQuestion without its range test
loadQuestionNoRangeTest(st, index) ==
    [st EXCEPT !.currentQuestionIndex = index]

\* loadQuestion: `if (index < 0 || index >= state.questions.length) return`
loadQuestion(st, index) ==
    IF index < 0 \/ index >= Len(st.questions) THEN st
    ELSE [st EXCEPT !.currentQuestionIndex = index]

\* startQuiz: navigateTo('quizPage'); startTimer(); loadQuestion(0)
startQuiz(st) ==
    IF variant = "backend" /\ st.currentQuiz = <<>>
    THEN navigateTo(st, "joinPage")
    ELSE loadQuestion([navigateTo(st, "quizPage")
                          EXCEPT !.timer = timerSeq + 1], 0)

startsTimer(st) == ~(variant = "backend" /\ st.currentQuiz = <<>>)

\* showResults: navigateTo('resultsPage') and the reset of the quiz state
showResults(st) ==
    [navigateTo(st, "resultsPage") EXCEPT !.answers = <<>>,
                                          !.currentQuestionIndex = 0,
                                          !.tabSwitchCount = 0]

shown(score, total) ==
    <<[score |-> score, total |-> total,
       percentage |-> IF total = 0 THEN -1 ELSE percentage(score, total)]>>

\* the timer value fetchQuiz derives from the quiz's endTime
timeFromEndTime(quiz, now) ==
    IF quiz.endTime # 0
    THEN Max(0, (quiz.endTime - now) \div MsPerSecond)
    ELSE DEFAULT_QUIZ_TIME_SECONDS

\* a fresh attempt history, taken at every startQuiz
histStart ==
    [recorded |-> 0, timerSubmits |-> 0, forcedRequests |-> 0,
     gateScore |-> 0, frozen |-> TRUE, declined |-> 0]

\* a stored result / submission
resultEntry(code, p, score, total, arr) ==
    [quizCode |-> code, name |-> p.name, roll |-> p.roll,
     branch |-> p.branch, score |-> score, total |-> total, answers |-> arr]

\* mockJoinQuiz / the memory variant's fetchQuiz: the participant record
participantEntry(code, p) ==
    [quizCode |-> code, name |-> p.name, roll |-> p.roll, branch |-> p.branch]

\* -------------------------------------------------------------- submitQuiz
\* submitQuiz past the confirmation gate, run on the state st its caller has
\* produced, with the live intervals iv and the attempt history h.
\*   local:   scores state.questions against state.answers, saves the result
\*            (saved = FALSE: localStorage.setItem throws, the catch block
\*            only alerts) and shows it
\*   memory:  suspends at `await new Promise(... 500)`; everything is read
\*            from state when it resumes
\*   backend: builds answersArray / submissionData, then awaits the backend
submitQuiz(st, iv, h) ==
    LET cleared == IF st.timer # 0 THEN iv \ {st.timer} ELSE iv IN
    /\ intervals' = cleared
    /\ variant # "local" => BagCardinality(submitting) < MaxSubmitting
    /\ CASE variant = "local" ->
              IF st.participant = <<>>
              THEN /\ state' = st
                   /\ hist' = h
                   /\ alert' = showAlert("Failed to submit quiz", "error")
                   /\ UNCHANGED <<storage, display, submitting>>
              ELSE LET score == scoreLocal(st.questions, st.answers)
                       total == Len(st.questions)
                       arr == answersArrayLocal(st.questions, st.answers)
                   IN  \E saved \in BOOLEAN :
                         IF ~saved
                         THEN /\ state' = st
                              /\ hist' = h
                              /\ alert' = showAlert("Failed to submit quiz",
                                                    "error")
                              /\ UNCHANGED <<storage, display, submitting>>
                         ELSE /\ storage' = [storage EXCEPT !.results =
                                     Append(@, resultEntry(st.quizCode,
                                         st.participant[1], score, total, arr))]
                              /\ state' = showResults(st)
                              /\ display' = shown(score, total)
                              /\ hist' = [h EXCEPT !.recorded = @ + 1,
                                                   !.gateScore = score]
                              /\ UNCHANGED <<submitting, alert>>
         [] variant = "memory" ->
              LET quiz == find(storage.quizzes, st.quizCode) IN
              /\ submitting' = submitting (+) SetToBag({[stage |-> "delay"]})
              /\ state' = st
              /\ hist' = [h EXCEPT !.gateScore =
                              IF quiz = <<>> THEN 0
                              ELSE scoreEntries(quiz[1].questions,
                                                entries(st.answers))]
              /\ UNCHANGED <<storage, display, alert>>
         [] variant = "backend" ->
              IF st.participant = <<>>
              THEN /\ state' = st
                   /\ hist' = h
                   /\ alert' = showAlert("Failed to submit quiz", "error")
                   /\ UNCHANGED <<storage, display, submitting>>
              ELSE /\ submitting' = submitting (+) SetToBag({
                          [code |-> st.quizCode,
                           participant |-> st.participant[1],
                           answers |-> entries(st.answers)]})
                   /\ state' = st
                   /\ hist' = [h EXCEPT !.gateScore =
                          LET quiz == find(storage.quizzes, st.quizCode)
                          IN  IF quiz = <<>> THEN 0
                              ELSE scoreEntries(quiz[1].questions,
                                                entries(st.answers))]
                   /\ UNCHANGED <<storage, display, alert>>

\* the memory variant's submitQuiz after its await
submitQuizResumeMemory ==
    /\ variant = "memory"
    /\ \E c \in BagToSet(submitting) :
         LET quiz == find(storage.quizzes, state.quizCode) IN
         /\ submitting' = submitting (-) SetToBag({c})
         /\ IF quiz = <<>> \/ state.participant = <<>>
            THEN /\ alert' = showAlert(IF quiz = <<>> THEN "Quiz not found"
                                       ELSE "Failed to submit quiz", "error")
                 /\ UNCHANGED <<state, storage, display, hist>>
            ELSE LET arr == entries(state.answers)
                     score == scoreEntries(quiz[1].questions, arr)
                     total == Len(quiz[1].questions)
                 IN  /\ storage' = [storage EXCEPT !.results =
                            Append(@, resultEntry(state.quizCode,
                                state.participant[1], score, total, arr))]
                     /\ state' = showResults(state)
                     /\ display' = shown(score, total)
                     /\ hist' = [hist EXCEPT
                            !.recorded = @ + 1,
                            !.frozen = (score = hist.gateScore)]
                     /\ UNCHANGED alert
    /\ UNCHANGED <<variant, author, event, timerSeq, intervals, timeouts, fetching>>

\* mockSubmitQuiz: the backend scores the submitted answers array
mockSubmitQuiz(quizzes, code, arr) ==
    LET quiz == find(quizzes, code)
    IN  IF quiz = <<>> THEN <<>>
        ELSE <<[score |-> scoreEntries(quiz[1].questions, arr),
                totalQuestions |-> Len(quiz[1].questions)]>>

\* submitQuiz of the backend variant resetting the quiz state on a failure too
submitQuizResumeBackendResets ==
    /\ variant = "backend"
    /\ \E c \in BagToSet(submitting), ok \in BOOLEAN :
         LET result == mockSubmitQuiz(storage.quizzes, c.code, c.answers) IN
         /\ submitting' = submitting (-) SetToBag({c})
         /\ IF ~ok \/ result = <<>>
            THEN /\ alert' = showAlert("Failed to submit quiz", "error")
                 /\ state' = [state EXCEPT !.answers = <<>>,
                                           !.currentQuestionIndex = 0,
                                           !.tabSwitchCount = 0]
                 /\ UNCHANGED <<storage, display, hist>>
            ELSE /\ storage' = [storage EXCEPT !.results =
                        Append(@, resultEntry(c.code, c.participant,
                            result[1].score, result[1].totalQuestions,
                            c.answers))]
                 /\ state' = showResults(state)
                 /\ display' = shown(result[1].score, result[1].totalQuestions)
                 /\ hist' = [hist EXCEPT
                        !.recorded = @ + 1,
                        !.frozen = (result[1].score = hist.gateScore)]
                 /\ UNCHANGED alert
    /\ UNCHANGED <<variant, author, event, timerSeq, intervals, timeouts,
                   fetching>>

\* the backend variant's submitQuiz after `await` of the submit request;
\* ok = FALSE is a response that is not ok (or a rejected request)
submitQuizResumeBackend ==
    /\ variant = "backend"
    /\ \E c \in BagToSet(submitting), ok \in BOOLEAN :
         LET result == mockSubmitQuiz(storage.quizzes, c.code, c.answers) IN
         /\ submitting' = submitting (-) SetToBag({c})
         /\ IF ~ok \/ result = <<>>
            THEN /\ alert' = showAlert("Failed to submit quiz", "error")
                 /\ UNCHANGED <<state, storage, display, hist>>
            ELSE /\ storage' = [storage EXCEPT !.results =
                        Append(@, resultEntry(c.code, c.participant,
                            result[1].score, result[1].totalQuestions,
                            c.answers))]
                 /\ state' = showResults(state)
                 /\ display' = shown(result[1].score, result[1].totalQuestions)
                 /\ hist' = [hist EXCEPT
                        !.recorded = @ + 1,
                        !.frozen = (result[1].score = hist.gateScore)]
                 /\ UNCHANGED alert
    /\ UNCHANGED <<variant, author, event, timerSeq, intervals, timeouts, fetching>>

\* submitQuiz past its gate whatever confirm(...) returned
submitQuizManualNoGate ==
    /\ state.currentPage = "quizPage"
    /\ \E confirmed \in BOOLEAN :
         /\ ~confirmed => (hist.declined < MaxDeclined
                            /\ timerSeq <= MaxAnswered)
         /\ submitQuiz(state, intervals,
                       IF confirmed THEN hist
                       ELSE [hist EXCEPT !.declined = @ + 1])
         /\ UNCHANGED <<variant, author, event, timerSeq, timeouts, fetching>>

\* the submit button: submitQuiz(false), whose confirm(...) is the gate:
\* `if (!confirmed) return` leaves the program as it was.  Declined
\* confirmations are counted in the attempts whose answering is followed.
submitQuizManual ==
    /\ state.currentPage = "quizPage"
    /\ \E confirmed \in BOOLEAN :
         IF ~confirmed
         THEN /\ hist.declined < MaxDeclined
              /\ timerSeq <= MaxAnswered
              /\ hist' = [hist EXCEPT !.declined = @ + 1]
              /\ UNCHANGED <<variant, state, timerSeq, intervals, timeouts,
                             fetching, submitting, storage, display, alert,
                             event, author>>
         ELSE /\ submitQuiz(state, intervals, hist)
              /\ UNCHANGED <<variant, author, event, timerSeq, timeouts, fetching>>

\* ---------------------------------------------------------------- join flow
\* buttons of the pages other than the quiz page ("Join Quiz", "Back", "Home")
navigate ==
    /\ state.currentPage # "quizPage"
    /\ \E pageId \in {"joinPage"} :
         state' = navigateTo(state, pageId)
    /\ UNCHANGED <<variant, author, event, timerSeq, intervals, timeouts, fetching,
                   submitting, storage, display, alert, hist>>

\* submitJoinCode without the length test
submitJoinCodeNoLengthTest ==
    /\ state.currentPage = "joinPage"
    /\ \E value \in CodeInputs :
         /\ state' = navigateTo([state EXCEPT !.quizCode = trim(value)],
                                "joinDetailsPage")
         /\ UNCHANGED alert
    /\ UNCHANGED <<variant, author, event, timerSeq, intervals, timeouts, fetching,
                   submitting, storage, display, hist>>

\* handleJoinCode on a code typed from `inputs`
submitJoinCodeFrom(inputs) ==
    /\ state.currentPage = "joinPage"
    /\ \E value \in inputs :
         LET code == trim(value) IN
         IF Len(code) # 6
         THEN /\ alert' = showAlert("Please enter a valid 6-digit code",
                                    "error")
              /\ UNCHANGED state
         ELSE /\ state' = navigateTo([state EXCEPT !.quizCode = code],
                                     "joinDetailsPage")
              /\ UNCHANGED alert
    /\ UNCHANGED <<variant, author, event, timerSeq, intervals, timeouts, fetching,
                   submitting, storage, display, hist>>

submitJoinCode == submitJoinCodeFrom(CodeInputs)

\* the end of a successful fetchQuiz: the state st with the quiz loaded is
\* handed to startQuiz, whose startTimer makes interval timerSeq + 1 live.
\* The local variant has shown 'Loading quiz...' in the same handler.
startAttempt(st) ==
    /\ state' = startQuiz(st)
    /\ IF startsTimer(st)
       THEN /\ timerSeq' = timerSeq + 1
            /\ intervals' = intervals \cup {timerSeq + 1}
            /\ hist' = histStart
            /\ IF variant = "local"
               THEN alert' = showAlert("Loading quiz...", "success")
               ELSE UNCHANGED alert
       ELSE /\ alert' = showAlert("Quiz data not loaded properly", "error")
            /\ UNCHANGED <<timerSeq, intervals, hist>>

\* the catch block of fetchQuiz
fetchFailed(st, message) ==
    /\ state' = navigateTo(st, "joinPage")
    /\ alert' = showAlert(message, "error")
    /\ UNCHANGED <<timerSeq, intervals, hist>>

\* fetchQuiz of the local variant
fetchQuizLocal(st) ==
    LET quiz == find(storage.quizzes, st.quizCode) IN
    IF quiz = <<>>
    THEN fetchFailed(st, "Quiz not found. Try code: 123456 or 789012")
    ELSE startAttempt([st EXCEPT
             !.currentQuiz = <<[timeLimit |-> quiz[1].timeLimit]>>,
             !.questions = quiz[1].questions,
             !.timeRemaining = quiz[1].timeLimit])

\* submitJoinDetails with the form filled from inputs, up to the first await
\* of fetchQuiz
submitJoinDetailsFrom(inputs) ==
    /\ state.currentPage = "joinDetailsPage"
    /\ timerSeq + BagCardinality(fetching) < MaxJoins
    /\ Len(storage.participants) + BagCardinality(fetching) < MaxJoins
    /\ \E form \in inputs :
         LET p == [name |-> trim(form.name), roll |-> trim(form.roll),
                   branch |-> trim(form.branch)]
             st == [state EXCEPT !.participant = <<p>>]
         IN  CASE variant = "local" ->
                    /\ fetchQuizLocal(st)
                    /\ UNCHANGED fetching
               [] variant = "memory" ->
                    /\ state' = st
                    /\ fetching' = fetching (+) SetToBag({[stage |-> "delay"]})
                    /\ alert' = showAlert("Loading quiz...", "success")
                    /\ UNCHANGED <<timerSeq, intervals, hist>>
               [] variant = "backend" ->
                    /\ state' = st
                    /\ fetching' = fetching (+) SetToBag({
                           [stage |-> "join", code |-> st.quizCode,
                            participant |-> p]})
                    /\ alert' = showAlert("Loading quiz...", "success")
                    /\ UNCHANGED <<timerSeq, intervals, hist>>
    /\ UNCHANGED <<variant, author, event, timeouts, submitting, storage, display>>

submitJoinDetails == submitJoinDetailsFrom(ParticipantInputs)

\* fetchQuiz of the memory variant after `await new Promise(... 400)`
fetchQuizResumeMemory ==
    /\ variant = "memory"
    /\ \E c \in BagToSet(fetching), now \in NowInputs :
         LET quiz == find(storage.quizzes, state.quizCode) IN
         /\ fetching' = fetching (-) SetToBag({c})
         /\ IF quiz = <<>> \/ ~quiz[1].isActive
            THEN /\ fetchFailed(state, "Quiz not found or not active")
                 /\ UNCHANGED storage
            ELSE /\ storage' = [storage EXCEPT !.participants =
                        Append(@, participantEntry(state.quizCode,
                                                   state.participant[1]))]
                 /\ startAttempt([state EXCEPT
                        !.currentQuiz = <<[code |-> quiz[1].code,
                                           timeLimit |-> quiz[1].timeLimit,
                                           isActive |-> quiz[1].isActive,
                                           endTime |-> quiz[1].endTime]>>,
                        !.questions = sanitize(quiz[1].questions),
                        !.timeRemaining = timeFromEndTime(quiz[1], now)])
    /\ UNCHANGED <<variant, author, event, timeouts, submitting, display>>

\* mockJoinQuiz: the backend's answer to the join request, <<>> on failure
mockJoinQuiz(quizzes, code) ==
    LET quiz == find(quizzes, code)
    IN  IF quiz = <<>> THEN <<>>
        ELSE IF ~quiz[1].isActive THEN <<>>
        ELSE <<[code |-> quiz[1].code, timeLimit |-> quiz[1].timeLimit,
                isActive |-> quiz[1].isActive, endTime |-> quiz[1].endTime]>>

\* mockGetQuestions: the sanitized questions, <<>> on failure
mockGetQuestions(quizzes, code) ==
    LET quiz == find(quizzes, code)
    IN  IF quiz = <<>> THEN <<>> ELSE <<sanitize(quiz[1].questions)>>

\* fetchQuiz of the backend variant after the join request: on success the
\* questions request is issued for the code state.quizCode holds now
fetchQuizJoined ==
    /\ variant = "backend"
    /\ \E c \in BagToSet(fetching), ok \in BOOLEAN :
         LET joinData == mockJoinQuiz(storage.quizzes, c.code) IN
         /\ c.stage = "join"
         /\ IF ~ok \/ joinData = <<>>
            THEN /\ fetching' = fetching (-) SetToBag({c})
                 /\ fetchFailed(state, "Quiz not found or not active")
                 /\ UNCHANGED storage
            ELSE /\ fetching' = (fetching (-) SetToBag({c})) (+) SetToBag({
                        [stage |-> "questions", code |-> state.quizCode,
                         joinData |-> joinData]})
                 /\ storage' = [storage EXCEPT !.participants =
                        Append(@, participantEntry(c.code, c.participant))]
                 /\ UNCHANGED <<state, timerSeq, intervals, alert, hist>>
    /\ UNCHANGED <<variant, author, event, timeouts, submitting, display>>

\* fetchQuiz of the backend variant after the questions request
fetchQuizResumeBackend ==
    /\ variant = "backend"
    /\ \E c \in BagToSet(fetching), ok \in BOOLEAN, now \in NowInputs :
         LET questionsData == mockGetQuestions(storage.quizzes, c.code) IN
         /\ c.stage = "questions"
         /\ fetching' = fetching (-) SetToBag({c})
         /\ IF ~ok \/ questionsData = <<>>
            THEN fetchFailed(state, "Failed to load questions")
            ELSE startAttempt([state EXCEPT
                     !.currentQuiz = c.joinData,
                     !.questions = questionsData[1],
                     !.timeRemaining = timeFromEndTime(c.joinData[1], now)])
    /\ UNCHANGED <<variant, author, event, timeouts, submitting, storage, display>>

\* ------------------------------------------------------------ answering
\* selectOption with every other answer dropped
selectOptionForgetsOthers(optionIndex) ==
    /\ state' = [state EXCEPT !.answers =
                    (state.currentQuestionIndex :> optionIndex)]
    /\ UNCHANGED <<variant, author, event, timerSeq, intervals, timeouts, fetching,
                   submitting, storage, display, alert, hist>>

\* selectOption: state.answers[state.currentQuestionIndex] = optionIndex
selectOption(optionIndex) ==
    /\ state' = [state EXCEPT !.answers =
                    (state.currentQuestionIndex :> optionIndex) @@ @]
    /\ UNCHANGED <<variant, author, event, timerSeq, intervals, timeouts, fetching,
                   submitting, storage, display, alert, hist>>

\* a click on one of the options loadQuestion has rendered:
\* optionDiv.onclick = () => selectOption(i)
clickOption ==
    /\ state.currentPage = "quizPage"
    /\ state.currentQuestionIndex < Len(state.questions)
    /\ timerSeq <= MaxAnswered
    /\ \E i \in
           0..(state.questions[state.currentQuestionIndex + 1].options - 1) :
         selectOption(i)

\* navigateQuestion starting the question it shows afresh
navigateQuestionClearsAnswer ==
    /\ state.currentPage = "quizPage"
    /\ \E direction \in {-1, 1} :
         LET st == loadQuestion(state, state.currentQuestionIndex + direction)
         IN  state' = [st EXCEPT !.answers =
                          [q \in DOMAIN @ \ {st.currentQuestionIndex} |-> @[q]]]
    /\ UNCHANGED <<variant, author, event, timerSeq, intervals, timeouts,
                   fetching, submitting, storage, display, alert, hist>>

navigateQuestion ==
    /\ state.currentPage = "quizPage"
    /\ \E direction \in {-1, 1} :
         state' = loadQuestion(state, state.currentQuestionIndex + direction)
    /\ UNCHANGED <<variant, author, event, timerSeq, intervals, timeouts, fetching,
                   submitting, storage, display, alert, hist>>

\* ------------------------------------------------------------ countdown
\* one firing of the setInterval callback of startTimer, interval id
tick ==
    /\ state.timeRemaining > -MaxOverrun
    /\ \E id \in intervals :
         LET st == [state EXCEPT !.timeRemaining = @ - 1] IN
         IF st.timeRemaining <= 0
         THEN submitQuiz(st, intervals \ {st.timer},
                         [hist EXCEPT !.timerSubmits = @ + 1])
         ELSE /\ state' = st
              /\ UNCHANGED <<intervals, submitting, storage, display, alert,
                             hist>>
    /\ UNCHANGED <<variant, author, event, timerSeq, timeouts, fetching>>

\* ------------------------------------------------------------ anti-cheat
\* the visibilitychange listener counting every loss twice
visibilitychangeCountsTwice ==
    /\ state.tabSwitchCount < MaxTabSwitch
    /\ \E hidden \in BOOLEAN :
         IF state.currentPage = "quizPage" /\ hidden
         THEN /\ state' = [state EXCEPT !.tabSwitchCount = @ + 2]
              /\ alert' = showAlert("Tab switch detected!", "warning")
              /\ UNCHANGED <<timeouts, hist>>
         ELSE UNCHANGED <<state, timeouts, alert, hist>>
    /\ UNCHANGED <<variant, author, event, timerSeq, intervals, fetching,
                   submitting, storage, display>>

\* the visibilitychange listener; hidden is document.hidden
visibilitychange ==
    /\ state.tabSwitchCount < MaxTabSwitch
    /\ \E hidden \in BOOLEAN :
         IF state.currentPage = "quizPage" /\ hidden
         THEN /\ state' = [state EXCEPT !.tabSwitchCount = @ + 1]
              /\ IF state.tabSwitchCount + 1 >= 3
                 THEN /\ timeouts < MaxTimeouts
                      /\ timeouts' = timeouts + 1
                      /\ hist' = [hist EXCEPT !.forcedRequests = @ + 1]
                      /\ alert' = showAlert(
                             "Too many tab switches! Auto-submitting quiz.",
                             "error")
                 ELSE /\ alert' = showAlert("Tab switch detected!", "warning")
                      /\ UNCHANGED <<timeouts, hist>>
         ELSE UNCHANGED <<state, timeouts, alert, hist>>
    /\ UNCHANGED <<variant, author, event, timerSeq, intervals, fetching, submitting,
                   storage, display>>

\* the clipboard listeners:
\* `if (state.currentPage === 'quizPage') { e.preventDefault(); showAlert(...) }`
copy ==
    /\ event' = <<[type |-> "copy",
                   defaultPrevented |-> state.currentPage = "quizPage"]>>
    /\ IF state.currentPage = "quizPage"
       THEN alert' = showAlert("Copying is disabled during quiz", "warning")
       ELSE UNCHANGED alert
    /\ UNCHANGED <<variant, author, state, timerSeq, intervals, timeouts,
                   fetching, submitting, storage, display, hist>>

paste ==
    /\ event' = <<[type |-> "paste",
                   defaultPrevented |-> state.currentPage = "quizPage"]>>
    /\ IF state.currentPage = "quizPage"
       THEN alert' = showAlert("Pasting is disabled during quiz", "warning")
       ELSE UNCHANGED alert
    /\ UNCHANGED <<variant, author, state, timerSeq, intervals, timeouts,
                   fetching, submitting, storage, display, hist>>

\* the keys of the restricted shortcuts and one other key
KeyCodes == {"F12", "KeyI", "KeyJ", "KeyU", "KeyA"}

\* KeyboardEvent.key of a key press with Caps Lock off: a letter key gives
\* the capital letter with Shift held and the small letter without; Ctrl
\* does not change it
keyOf(code, shiftKey) ==
    CASE code = "F12" -> "F12"
      [] code = "KeyI" -> IF shiftKey THEN "I" ELSE "i"
      [] code = "KeyJ" -> IF shiftKey THEN "J" ELSE "j"
      [] code = "KeyU" -> IF shiftKey THEN "U" ELSE "u"
      [] code = "KeyA" -> IF shiftKey THEN "A" ELSE "a"

\* the keydown events the keyboard delivers
KeyEvents ==
    {[type |-> "keydown", code |-> code, key |-> keyOf(code, shiftKey),
      ctrlKey |-> ctrlKey, shiftKey |-> shiftKey] :
        code \in KeyCodes, ctrlKey \in BOOLEAN, shiftKey \in BOOLEAN}

\* the test of the keydown listener
isDevToolsKey(e) ==
    \/ e.key = "F12"
    \/ (e.ctrlKey /\ e.shiftKey /\ (e.key = "I" \/ e.key = "J"))
    \/ (e.ctrlKey /\ e.key = "U")

\* the keydown listener
keydown ==
    /\ \E e \in KeyEvents :
         LET caught == state.currentPage = "quizPage" /\ isDevToolsKey(e) IN
         /\ event' = <<[type |-> e.type, code |-> e.code, key |-> e.key,
                        ctrlKey |-> e.ctrlKey, shiftKey |-> e.shiftKey,
                        defaultPrevented |-> caught]>>
         /\ IF caught
            THEN alert' = showAlert("Developer tools are disabled during quiz",
                                    "warning")
            ELSE UNCHANGED alert
    /\ UNCHANGED <<variant, author, state, timerSeq, intervals, timeouts,
                   fetching, submitting, storage, display, hist>>

\* the callback of setTimeout(() => submitQuiz(true), 2000)
timeoutFire ==
    /\ timeouts > 0
    /\ timeouts' = timeouts - 1
    /\ submitQuiz(state, intervals, hist)
    /\ UNCHANGED <<variant, author, event, timerSeq, fetching>>

\* ------------------------------------------------------------ creating tests
\* The dashboard of the creator who is logged in (demo@example.com, the owner
\* of the sample quizzes in the local variant).  A .question-item of the form
\* is [id, options]: its number and how many .option-text inputs it holds.
Digits == <<"0", "1", "2", "3", "4", "5", "6", "7", "8", "9">>

\* Number.prototype.toString of a non-negative integer
RECURSIVE toString(_)
toString(n) ==
    IF n < 10 THEN <<Digits[n + 1]>>
    ELSE toString(n \div 10) \o <<Digits[(n % 10) + 1]>>

\* parseInt of a string of digits
RECURSIVE parseInt(_)
parseInt(s) ==
    LET value(c) == (CHOOSE d \in 1..10 : Digits[d] = c) - 1
    IN  IF Len(s) = 1 THEN value(s[1])
        ELSE 10 * parseInt(SubSeq(s, 1, Len(s) - 1)) + value(s[Len(s)])

\* values of Math.floor(100000 + Math.random() * 900000)
QuizCodeDraws == {123456, 789012}

\* generateQuizCode, n the number drawn
generateQuizCode(n) == toString(n)

\* what the creator types into the number fields: the time limit, and the
\* correct answer as an option number (required, min="1")
TimeInputs == {toString(MaxTime)}
CorrectInputs == {toString(n) : n \in 1..MaxOptions}

\* Date.now() when a quiz is created
CreationTimes == {0}

dashboard == state.currentPage = "dashboardPage"

\* container.innerHTML = '<h3>Questions</h3>'; state.questionCount = 0
resetForm(a) == [a EXCEPT !.questions = <<>>, !.questionCount = 0]

\* Array.prototype.splice(index, 1)
splice(seq, index) ==
    SubSeq(seq, 1, index - 1) \o SubSeq(seq, index + 1, Len(seq))

\* Array.prototype.findIndex(q => q.code === code), 0 when there is none
findIndex(quizzes, code) ==
    LET hits == {i \in 1..Len(quizzes) : quizzes[i].code = code}
    IN  IF hits = {} THEN 0 ELSE CHOOSE i \in hits : \A j \in hits : i <= j

\* filter(x => x.quizCode !== code)
withoutQuiz(entriesOfQuiz, code) ==
    SelectSeq(entriesOfQuiz, LAMBDA x : x.quizCode # code)

addQuestion ==
    /\ dashboard
    /\ Len(author.questions) < MaxItems
    /\ author.questionCount < MaxQuestionCount
    /\ author' = [author EXCEPT
          !.questionCount = @ + 1,
          !.questions = Append(@, [id |-> author.questionCount + 1,
                                   options |-> 2])]
    /\ UNCHANGED <<variant, event, state, timerSeq, intervals, timeouts,
                   fetching, submitting, storage, display, alert, hist>>

deleteQuestion ==
    /\ dashboard
    /\ \E i \in 1..Len(author.questions) :
         author' = [author EXCEPT !.questions = splice(@, i)]
    /\ UNCHANGED <<variant, event, state, timerSeq, intervals, timeouts,
                   fetching, submitting, storage, display, alert, hist>>

addOption ==
    /\ dashboard
    /\ \E i \in 1..Len(author.questions) :
         /\ author.questions[i].options < MaxOptions
         /\ author' = [author EXCEPT !.questions[i].options = @ + 1]
    /\ UNCHANGED <<variant, event, state, timerSeq, intervals, timeouts,
                   fetching, submitting, storage, display, alert, hist>>

\* deleteOption: `if (optionsList.children.length > 2) optionItem.remove()`
deleteOption ==
    /\ dashboard
    /\ \E i \in 1..Len(author.questions) :
         IF author.questions[i].options > 2
         THEN /\ author' = [author EXCEPT !.questions[i].options = @ - 1]
              /\ UNCHANGED alert
         ELSE /\ alert' = showAlert("At least 2 options are required",
                                    "warning")
              /\ UNCHANGED author
    /\ UNCHANGED <<variant, event, state, timerSeq, intervals, timeouts,
                   fetching, submitting, storage, display, hist>>

\* the questions handleCreateTest collects from the form; values are the
\* .correct-answer fields
collectQuestions(items, values) ==
    [i \in 1..Len(items) |->
        [text |-> items[i].id, options |-> items[i].options,
         correctAnswer |-> parseInt(values[i]) - 1]]

\* the quiz handleCreateTest / mockCreateQuiz stores
newQuiz(code, timeLimit, endTime, questions) ==
    [code |-> code, timeLimit |-> timeLimit, isActive |-> TRUE,
     endTime |-> endTime, questions |-> questions]

\* handleCreateTest without the test of questions.length
handleCreateTestNoEmptyTest ==
    /\ dashboard
    /\ \E values \in [1..Len(author.questions) -> CorrectInputs],
          time \in TimeInputs :
         LET questions == collectQuestions(author.questions, values)
             timeLimit == parseInt(time)
         IN
         /\ Len(storage.quizzes) + BagCardinality(author.requests)
              < MaxQuizzes
         /\ IF variant = "local"
            THEN \E n \in QuizCodeDraws, saved \in BOOLEAN :
                   IF saved
                   THEN /\ storage' = [storage EXCEPT !.quizzes =
                               Append(@, newQuiz(generateQuizCode(n),
                                                 timeLimit, 0, questions))]
                        /\ alert' = showAlert("Test created!", "success")
                        /\ author' = resetForm(author)
                   ELSE /\ alert' = showAlert("Failed to create test",
                                              "error")
                        /\ UNCHANGED <<author, storage>>
            ELSE /\ BagCardinality(author.requests) < MaxRequests
                 /\ author' = [author EXCEPT !.requests = @ (+)
                       SetToBag({[op |-> "create", timeLimit |-> timeLimit,
                                  questions |-> questions,
                                  token |-> author.session]})]
                 /\ UNCHANGED <<storage, alert>>
    /\ UNCHANGED <<variant, event, state, timerSeq, intervals, timeouts,
                   fetching, submitting, display, hist>>

\* handleCreateTest, up to its await in the memory and backend variants.
\* local: saved = FALSE is localStorage.setItem throwing
handleCreateTest ==
    /\ dashboard
    /\ \E values \in [1..Len(author.questions) -> CorrectInputs],
          time \in TimeInputs :
         LET questions == collectQuestions(author.questions, values)
             timeLimit == parseInt(time)
         IN
         IF Len(questions) = 0
         THEN /\ alert' = showAlert("Please add at least one question",
                                    "error")
              /\ UNCHANGED <<author, storage>>
         ELSE /\ Len(storage.quizzes) + BagCardinality(author.requests)
                    < MaxQuizzes
              /\ IF variant = "local"
                 THEN \E n \in QuizCodeDraws, saved \in BOOLEAN :
                        IF saved
                        THEN /\ storage' = [storage EXCEPT !.quizzes =
                                    Append(@, newQuiz(generateQuizCode(n),
                                                      timeLimit, 0, questions))]
                             /\ alert' = showAlert("Test created!", "success")
                             /\ author' = resetForm(author)
                        ELSE /\ alert' = showAlert("Failed to create test",
                                                   "error")
                             /\ UNCHANGED <<author, storage>>
                 ELSE /\ BagCardinality(author.requests) < MaxRequests
                      /\ author' = [author EXCEPT !.requests = @ (+)
                            SetToBag({[op |-> "create", timeLimit |-> timeLimit,
                                       questions |-> questions,
                                       token |-> author.session]})]
                      /\ UNCHANGED <<storage, alert>>
    /\ UNCHANGED <<variant, event, state, timerSeq, intervals, timeouts,
                   fetching, submitting, display, hist>>

\* what a mockBackend function gives back: the message of the error it
\* throws ("" when it returns) and mockStorage as it leaves it
outcome(error, st) == [error |-> error, storage |-> st]

\* mockCreateQuiz(quizData, token); code is what generateQuizCode returns
\* and now what Date.now() does
mockCreateQuiz(st, quizData, token, code, now) ==
    IF token = <<>> THEN outcome("Unauthorized", st)
    ELSE outcome("", [st EXCEPT !.quizzes =
             Append(@, newQuiz(code, quizData.timeLimit,
                               now + quizData.timeLimit * MsPerSecond,
                               quizData.questions))])

\* the memory variant's handleCreateTest after its await: the handler draws
\* the code and pushes the quiz itself
createTestMemory(st, quizData, code, now) ==
    LET validTimeLimit == IF ~(quizData.timeLimit > 0)
                          THEN DEFAULT_QUIZ_TIME_SECONDS
                          ELSE quizData.timeLimit
    IN  outcome("", [st EXCEPT !.quizzes =
            Append(@, newQuiz(code, validTimeLimit,
                              now + validTimeLimit * MsPerSecond,
                              quizData.questions))])

\* handleCreateTest after its await.  backend: ok = FALSE is a response that
\* is not ok
handleCreateTestResume ==
    /\ \E c \in BagToSet(author.requests), n \in QuizCodeDraws,
          now \in CreationTimes, ok \in BOOLEAN :
         LET code == generateQuizCode(n)
             quizData == [timeLimit |-> c.timeLimit,
                          questions |-> c.questions]
             done == IF variant = "memory"
                     THEN createTestMemory(storage, quizData, code, now)
                     ELSE mockCreateQuiz(storage, quizData, c.token, code, now)
             pending == author.requests (-) SetToBag({c})
         IN
         /\ c.op = "create"
         /\ variant = "memory" => ok
         /\ IF ok /\ done.error = ""
            THEN /\ storage' = done.storage
                 /\ author' = [resetForm(author) EXCEPT
                        !.myQuizzes = Append(@, code),
                        !.requests = pending]
                 /\ alert' = showAlert("Test created!", "success")
            ELSE /\ author' = [author EXCEPT !.requests = pending]
                 /\ alert' = showAlert(IF ok THEN done.error
                                       ELSE "Failed to create test", "error")
                 /\ storage' = IF ok THEN done.storage ELSE storage
    /\ UNCHANGED <<variant, event, state, timerSeq, intervals, timeouts,
                   fetching, submitting, display, hist>>

\* the codes on the Delete buttons loadTests has rendered: in the local
\* variant the stored quizzes of the creator, in the others 'myQuizzes'
testData ==
    IF variant = "local"
    THEN {storage.quizzes[i].code : i \in 1..Len(storage.quizzes)}
    ELSE {author.myQuizzes[i] : i \in 1..Len(author.myQuizzes)}

\* deleteTest(code), up to its await in the memory and backend variants;
\* confirmed is what confirm(...) returned
deleteTestOf(code, confirmed) ==
    IF ~confirmed THEN UNCHANGED vars
    ELSE /\ IF variant = "local"
            THEN \E saved \in BOOLEAN :
                   IF saved
                   THEN /\ storage' = [storage EXCEPT
                               !.quizzes = SelectSeq(@,
                                   LAMBDA q : q.code # code),
                               !.results = withoutQuiz(@, code)]
                        /\ alert' = showAlert("Test deleted successfully",
                                              "success")
                        /\ UNCHANGED author
                   ELSE /\ alert' = showAlert("Failed to delete test",
                                              "error")
                        /\ UNCHANGED <<author, storage>>
            ELSE /\ BagCardinality(author.requests) < MaxRequests
                 /\ author' = [author EXCEPT !.requests = @ (+)
                       SetToBag({[op |-> "delete", code |-> code,
                                  token |-> author.session]})]
                 /\ UNCHANGED <<storage, alert>>
         /\ UNCHANGED <<variant, event, state, timerSeq, intervals,
                        timeouts, fetching, submitting, display, hist>>

\* the Delete button of a listed test: onclick="deleteTest(code)"
deleteTest ==
    /\ dashboard
    /\ \E code \in testData, confirmed \in BOOLEAN :
         deleteTestOf(code, confirmed)

\* mockDeleteQuiz with the token tested after the quiz is removed
mockDeleteQuizLateTokenTest(st, code, token) ==
    LET index == findIndex(st.quizzes, code)
        removed == [st EXCEPT !.quizzes = IF index # 0 THEN splice(@, index)
                                          ELSE @]
    IN  IF index = 0 THEN outcome("Quiz not found", st)
        ELSE IF token = <<>> THEN outcome("Unauthorized", removed)
        ELSE outcome("", [removed EXCEPT
                 !.results = withoutQuiz(@, code),
                 !.participants = withoutQuiz(@, code)])

\* mockDeleteQuiz(code, token)
mockDeleteQuiz(st, code, token) ==
    LET index == findIndex(st.quizzes, code)
    IN  IF token = <<>> THEN outcome("Unauthorized", st)
        ELSE IF index = 0 THEN outcome("Quiz not found", st)
        ELSE outcome("", [st EXCEPT
                 !.quizzes = splice(@, index),
                 !.results = withoutQuiz(@, code),
                 !.participants = withoutQuiz(@, code)])

\* the memory variant's deleteTest after its await: the handler splices the
\* first quiz with the code, if any, and filters the records
deleteTestMemory(st, code) ==
    LET index == findIndex(st.quizzes, code)
    IN  outcome("", [st EXCEPT
            !.quizzes = IF index # 0 THEN splice(@, index) ELSE @,
            !.results = withoutQuiz(@, code),
            !.participants = withoutQuiz(@, code)])

\* deleteTest after its await.  backend: ok = FALSE is a response that is
\* not ok
deleteTestResume ==
    /\ \E c \in BagToSet(author.requests), ok \in BOOLEAN :
         LET done == IF variant = "memory"
                     THEN deleteTestMemory(storage, c.code)
                     ELSE mockDeleteQuiz(storage, c.code, c.token)
             pending == author.requests (-) SetToBag({c})
         IN
         /\ c.op = "delete"
         /\ variant = "memory" => ok
         /\ IF ok /\ done.error = ""
            THEN /\ storage' = done.storage
                 /\ author' = [author EXCEPT
                        !.myQuizzes = SelectSeq(@, LAMBDA t : t # c.code),
                        !.requests = pending]
                 /\ alert' = showAlert("Test deleted successfully", "success")
            ELSE /\ author' = [author EXCEPT !.requests = pending]
                 /\ alert' = showAlert(IF ok THEN done.error
                                       ELSE "Failed to delete test", "error")
                 /\ storage' = IF ok THEN done.storage ELSE storage
    /\ UNCHANGED <<variant, event, state, timerSeq, intervals, timeouts,
                   fetching, submitting, display, hist>>

\* ------------------------------------------------------------- results
\* Array.prototype.sort(compare) on a copy of seq; compared[i, j] is what
\* compare(seq[i], seq[j]) returns.  The sort is stable (ECMAScript 2019):
\* an element goes behind every element already placed that does not
\* compare greater.  placed[n] holds the positions 1..n of seq in order.
sort(seq, compared) ==
    LET placed[n \in 0..Len(seq)] ==
            IF n = 0 THEN <<>>
            ELSE LET before == placed[n - 1]
                     behind == {i \in 1..Len(before) :
                                   compared[before[i], n] <= 0}
                     at == IF behind = {} THEN 0
                           ELSE CHOOSE i \in behind : \A j \in behind : j <= i
                 IN  SubSeq(before, 1, at) \o <<n>>
                         \o SubSeq(before, at + 1, Len(before))
    IN  [k \in 1..Len(seq) |-> seq[placed[Len(seq)][k]]]

\* the comparator of the local variant's viewResults
compareScoreThenTime(a, b) ==
    IF b.score # a.score THEN b.score - a.score
    ELSE a.timestamp - b.timestamp

\* the comparator of the memory variant's viewResults and mockGetLeaderboard
compareScore(a, b) == b.score - a.score

\* allResults[code] / filter(s => s.quizCode === code)
ofQuiz(entriesOfQuiz, code) ==
    SelectSeq(entriesOfQuiz, LAMBDA x : x.quizCode = code)

\* map(s => ({name, score, total, time}))
leaderboardRows(submissions) ==
    [i \in 1..Len(submissions) |->
        [name |-> submissions[i].name, score |-> submissions[i].score,
         total |-> submissions[i].total, time |-> submissions[i].timestamp]]

\* the leaderboard sorted by ascending score
leaderboardAscending(submissions) ==
    leaderboardRows(sort(submissions,
        [i \in 1..Len(submissions), j \in 1..Len(submissions) |->
            submissions[i].score - submissions[j].score]))

\* the leaderboard viewResults / mockGetLeaderboard builds from the
\* submissions of one quiz
leaderboard(submissions) ==
    leaderboardRows(sort(submissions,
        [i \in 1..Len(submissions), j \in 1..Len(submissions) |->
            IF variant = "local"
            THEN compareScoreThenTime(submissions[i], submissions[j])
            ELSE compareScore(submissions[i], submissions[j])]))

\* the participants list of the local variant: quizResults.map(...)
participantsOfResults(quizResults) ==
    [i \in 1..Len(quizResults) |->
        [name |-> quizResults[i].name, roll |-> quizResults[i].roll,
         branch |-> quizResults[i].branch, score |-> quizResults[i].score,
         total |-> quizResults[i].total]]

\* the participants list of the memory variant and of mockGetSummary: every
\* participant of the quiz with the score of the first submission under
\* the same name and roll, 0 without one
participantsOfQuiz(st, quiz, code) ==
    LET joined == ofQuiz(st.participants, code)
        submissions == ofQuiz(st.results, code)
        scoreOf(p) ==
            LET own == SelectSeq(submissions,
                           LAMBDA s : s.name = p.name /\ s.roll = p.roll)
            IN  IF own = <<>> THEN 0 ELSE own[1].score
    IN  [i \in 1..Len(joined) |->
            [name |-> joined[i].name, roll |-> joined[i].roll,
             branch |-> joined[i].branch, score |-> scoreOf(joined[i]),
             total |-> Len(quiz.questions)]]

\* what a reading mockBackend function gives back: the message of the error
\* it throws ("" when it returns) and the list it returns
answer(error, rows) == [error |-> error, rows |-> rows]

\* mockGetLeaderboard(code, token)
mockGetLeaderboard(st, code, token) ==
    LET quiz == find(st.quizzes, code)
    IN  IF token = <<>> THEN answer("Unauthorized", <<>>)
        ELSE IF quiz = <<>> THEN answer("Quiz not found", <<>>)
        ELSE answer("", leaderboard(ofQuiz(st.results, code)))

\* mockGetSummary(code, token)
mockGetSummary(st, code, token) ==
    LET quiz == find(st.quizzes, code)
    IN  IF token = <<>> THEN answer("Unauthorized", <<>>)
        ELSE IF quiz = <<>> THEN answer("Quiz not found", <<>>)
        ELSE answer("", participantsOfQuiz(st, quiz[1], code))

\* the memory variant's viewResults after its await: the handler reads
\* mockStorage itself
viewResultsMemory(st, code) ==
    LET quiz == find(st.quizzes, code)
    IN  IF quiz = <<>> THEN [leaderboard |-> answer("Quiz not found", <<>>),
                             summary |-> answer("Quiz not found", <<>>)]
        ELSE [leaderboard |->
                 answer("", leaderboard(ofQuiz(st.results, code))),
              summary |->
                 answer("", participantsOfQuiz(st, quiz[1], code))]

\* displayLeaderboard(leaderboard); displayParticipants(participants)
resultsShown(rows, participants) ==
    <<[leaderboard |-> rows, participants |-> participants]>>

\* viewResults(code), up to its await in the memory and backend variants
viewResultsOf(code) ==
    /\ state' = navigateTo(state, "testResultsPage")
    /\ IF variant = "local"
       THEN LET quizResults == ofQuiz(storage.results, code) IN
            /\ display' = resultsShown(leaderboard(quizResults),
                              participantsOfResults(quizResults))
            /\ UNCHANGED author
       ELSE /\ author' = [author EXCEPT !.requests = @ (+)
                  SetToBag({[op |-> "results", code |-> code,
                             token |-> author.session]})]
            /\ UNCHANGED display
    /\ UNCHANGED <<variant, event, timerSeq, intervals, timeouts, fetching,
                   submitting, storage, alert, hist>>

\* the Results button of a listed test: onclick="viewResults(code)"
viewResults ==
    /\ dashboard
    /\ \E code \in testData : viewResultsOf(code)

\* viewResults after its await.  backend: mockGetLeaderboard, then
\* mockGetSummary; ok = FALSE is a response that is not ok
viewResultsResume ==
    /\ \E c \in BagToSet(author.requests), ok \in BOOLEAN :
         LET done == IF variant = "memory"
                     THEN viewResultsMemory(storage, c.code)
                     ELSE [leaderboard |->
                              mockGetLeaderboard(storage, c.code, c.token),
                           summary |->
                              mockGetSummary(storage, c.code, c.token)]
             message == CASE ~ok -> "Failed to load leaderboard"
                          [] done.leaderboard.error # "" ->
                                done.leaderboard.error
                          [] OTHER -> done.summary.error
         IN
         /\ c.op = "results"
         /\ variant = "memory" => ok
         /\ author' = [author EXCEPT !.requests = @ (-) SetToBag({c})]
         /\ IF message = ""
            THEN /\ display' = resultsShown(done.leaderboard.rows,
                                            done.summary.rows)
                 /\ UNCHANGED alert
            ELSE /\ alert' = showAlert(message, "error")
                 /\ UNCHANGED display
    /\ UNCHANGED <<variant, event, state, timerSeq, intervals, timeouts,
                   fetching, submitting, storage, hist>>

\* ------------------------------------------------------------- accounts
\* what the user types into the login and registration forms
Emails == {"demo@example.com", "new@example.com"}
Passwords == {"demo123", "secret"}
LoginInputs == [email : Emails, password : Passwords]
RegisterInputs == [name : {"New User"}, email : Emails, password : Passwords]

\* the page holding the login and the registration form
authForms == state.currentPage = "authPage"

\* users.find(u => u.email === email) looking past the first account
findUserSkippingFirst(users, email) ==
    LET hits == {i \in 2..Len(users) : users[i].email = email}
    IN  IF hits = {} THEN <<>>
        ELSE <<users[CHOOSE i \in hits : \A j \in hits : i <= j]>>

\* users.find(u => u.email === email): the first account with the email,
\* <<>> when there is none
findUser(users, email) ==
    LET hits == {i \in 1..Len(users) : users[i].email = email}
    IN  IF hits = {} THEN <<>>
        ELSE <<users[CHOOSE i \in hits : \A j \in hits : i <= j]>>

\* the account a login is granted for, with the password left untested
loginUserNoPasswordTest(users, email, password) == findUser(users, email)

\* the account a login is granted for, <<>> when it is refused.
\*   local:  users.find(u => u.email === email && u.password === password)
\*   others: users.find(u => u.email === email), refused when
\*           `!user || user.password !== password`
loginUser(users, email, password) ==
    IF variant = "local"
    THEN LET hits == {i \in 1..Len(users) :
                         /\ users[i].email = email
                         /\ users[i].password = password}
         IN  IF hits = {} THEN <<>>
             ELSE <<users[CHOOSE i \in hits : \A j \in hits : i <= j]>>
    ELSE LET user == findUser(users, email)
         IN  IF user = <<>> \/ user[1].password # password THEN <<>>
             ELSE user

\* the auth tab of the landing page
openAuth ==
    /\ state.currentPage = "landingPage"
    /\ state' = navigateTo(state, "authPage")
    /\ UNCHANGED <<variant, author, event, timerSeq, intervals, timeouts,
                   fetching, submitting, storage, display, alert, hist>>

\* the end of a login or registration that went through, for the account
\* user: the session is saved, state.currentUser set, the dashboard opened
authenticated(a, user, message) ==
    /\ author' = loggedIn(a, user)
    /\ alert' = showAlert(message, "success")
    /\ state' = navigateTo(state, "dashboardPage")

\* the catch block of handleLogin / handleRegister
authFailed(a, message) ==
    /\ author' = a
    /\ alert' = showAlert(message, "error")
    /\ UNCHANGED state

\* handleLogin with the form filled as `form`, up to its await in the
\* memory and backend variants.  local: saved = FALSE is
\* localStorage.setItem throwing
handleLoginOf(form) ==
    /\ IF variant = "local"
       THEN LET user == loginUser(author.users, form.email, form.password)
            IN  IF user = <<>>
                THEN authFailed(author,
                  "Invalid credentials. Try: demo@example.com / demo123")
                ELSE \E saved \in BOOLEAN :
                       IF saved
                       THEN authenticated(author, user[1],
                                          "Login successful!")
                       ELSE authFailed(author, "Login failed")
       ELSE /\ BagCardinality(author.requests) < MaxPending
            /\ author' = [author EXCEPT !.requests = @ (+)
                  SetToBag({[op |-> "login", email |-> form.email,
                             password |-> form.password]})]
            /\ UNCHANGED <<state, alert>>
    /\ UNCHANGED <<variant, event, timerSeq, intervals, timeouts, fetching,
                   submitting, storage, display, hist>>

handleLogin ==
    /\ authForms
    /\ \E form \in LoginInputs : handleLoginOf(form)

\* handleLogin after its await; backend: mockLogin, and ok = FALSE is a
\* response that is not ok
handleLoginResume ==
    /\ \E c \in BagToSet(author.requests), ok \in BOOLEAN :
         LET user == loginUser(author.users, c.email, c.password)
             pending == [author EXCEPT !.requests = @ (-) SetToBag({c})]
         IN
         /\ c.op = "login"
         /\ variant = "memory" => ok
         /\ IF ok /\ user # <<>>
            THEN authenticated(pending, user[1], "Login successful!")
            ELSE authFailed(pending, "Invalid credentials")
    /\ UNCHANGED <<variant, event, timerSeq, intervals, timeouts, fetching,
                   submitting, storage, display, hist>>

\* the account handleRegister / mockRegister stores
newUser(form) ==
    [email |-> form.email, password |-> form.password, name |-> form.name]

\* handleRegister with the form filled as `form`, up to its await in the
\* memory and backend variants
handleRegisterOf(form) ==
    /\ IF variant = "local"
       THEN IF findUser(author.users, form.email) # <<>>
            THEN authFailed(author, "User already exists with this email")
            ELSE \E saved \in BOOLEAN :
                   IF saved
                   THEN /\ Len(author.users) < MaxUsers
                        /\ authenticated(
                              [author EXCEPT !.users =
                                  Append(@, newUser(form))],
                              newUser(form), "Registration successful!")
                   ELSE authFailed(author, "Registration failed")
       ELSE /\ BagCardinality(author.requests) < MaxPending
            /\ author' = [author EXCEPT !.requests = @ (+)
                  SetToBag({[op |-> "register", name |-> form.name,
                             email |-> form.email,
                             password |-> form.password]})]
            /\ UNCHANGED <<state, alert>>
    /\ UNCHANGED <<variant, event, timerSeq, intervals, timeouts, fetching,
                   submitting, storage, display, hist>>

handleRegister ==
    /\ authForms
    /\ \E form \in RegisterInputs : handleRegisterOf(form)

\* handleRegister after its await; backend: mockRegister, and ok = FALSE is
\* a response that is not ok
handleRegisterResume ==
    /\ \E c \in BagToSet(author.requests), ok \in BOOLEAN :
         LET pending == [author EXCEPT !.requests = @ (-) SetToBag({c})]
         IN
         /\ c.op = "register"
         /\ variant = "memory" => ok
         /\ IF ~ok THEN authFailed(pending, "Registration failed")
            ELSE IF findUser(author.users, c.email) # <<>>
            THEN authFailed(pending, "User already exists")
            ELSE /\ Len(author.users) < MaxUsers
                 /\ authenticated(
                       [pending EXCEPT !.users = Append(@, newUser(c))],
                       newUser(c), "Registration successful!")
    /\ UNCHANGED <<variant, event, timerSeq, intervals, timeouts, fetching,
                   submitting, storage, display, hist>>

\* handleLogout: the Logout button of the dashboard
handleLogout ==
    /\ dashboard
    /\ author' = [author EXCEPT !.currentUser = <<>>, !.session = <<>>]
    /\ alert' = showAlert("Logged out successfully", "success")
    /\ state' = navigateTo(state, "landingPage")
    /\ UNCHANGED <<variant, event, timerSeq, intervals, timeouts, fetching,
                   submitting, storage, display, hist>>

\* mockDeleteQuiz called for another client of the backend: the quiz, its
\* submissions and its participants are gone from the server
serverDeletesQuiz ==
    /\ variant = "backend"
    /\ \E i \in 1..Len(storage.quizzes) :
         LET code == storage.quizzes[i].code IN
         storage' = [storage EXCEPT
             !.quizzes = splice(@, findIndex(@, code)),
             !.results = withoutQuiz(@, code),
             !.participants = withoutQuiz(@, code)]
    /\ UNCHANGED <<variant, author, event, state, timerSeq, intervals,
                   timeouts, fetching, submitting, display, alert, hist>>

\* ------------------------------------------------------------------ Next
Next ==
    \/ navigate
    \/ submitJoinCode
    \/ submitJoinDetails
    \/ fetchQuizResumeMemory
    \/ fetchQuizJoined
    \/ fetchQuizResumeBackend
    \/ clickOption
    \/ navigateQuestion
    \/ tick
    \/ submitQuizManual
    \/ submitQuizResumeMemory
    \/ submitQuizResumeBackend
    \/ visibilitychange
    \/ timeoutFire

Spec == Init /\ [][Next]_vars

\* ------------------------------------------------- fair countdown
\* One join, then the attempt under the scheduling the browser guarantees:
\* a live interval keeps firing, an awaited request is answered, a pending
\* timeout fires.  The user answers and navigates but never submits.
beforeJoin ==
    /\ timerSeq = 0
    /\ fetching = EmptyBag
    /\ storage.participants = <<>>

LiveNext ==
    \/ (beforeJoin /\ navigate)
    \/ (beforeJoin /\ submitJoinCode)
    \/ (beforeJoin /\ submitJoinDetails)
    \/ fetchQuizResumeMemory
    \/ fetchQuizJoined
    \/ fetchQuizResumeBackend
    \/ clickOption
    \/ navigateQuestion
    \/ tick
    \/ submitQuizResumeMemory
    \/ submitQuizResumeBackend

LiveSpec ==
    /\ Init
    /\ [][LiveNext]_vars
    /\ WF_vars(tick)
    /\ WF_vars(fetchQuizResumeMemory)
    /\ WF_vars(fetchQuizJoined)
    /\ WF_vars(fetchQuizResumeBackend)
    /\ WF_vars(submitQuizResumeMemory)
    /\ WF_vars(submitQuizResumeBackend)

\* ------------------------------------------------- scoring an attempt
\* The attempts in progress on the sample quiz, one for every answers object
\* clickOption and navigateQuestion can build, and their submission by the
\* submit button or by the countdown.
AnswerMaps ==
    UNION {[D -> 0..(NumOptions - 1)] : D \in SUBSET (0..(NumQuestions - 1))}

ScoreInit ==
    /\ variant \in Variants
    /\ \E answers \in AnswerMaps, index \in 0..(NumQuestions - 1),
          remaining \in 1..MaxTime, form \in ParticipantInputs :
         LET quiz == SampleQuizzes[1]
             p == [name |-> trim(form.name), roll |-> trim(form.roll),
                   branch |-> trim(form.branch)]
         IN
         /\ state = [currentPage |-> "quizPage",
                     currentQuiz |->
                        IF variant = "local"
                        THEN <<[timeLimit |-> quiz.timeLimit]>>
                        ELSE <<[code |-> quiz.code,
                                timeLimit |-> quiz.timeLimit,
                                isActive |-> quiz.isActive,
                                endTime |-> quiz.endTime]>>,
                     quizCode |-> quiz.code,
                     questions |-> IF variant = "local" THEN quiz.questions
                                   ELSE sanitize(quiz.questions),
                     currentQuestionIndex |-> index,
                     answers |-> answers,
                     timer |-> 1,
                     timeRemaining |-> remaining,
                     tabSwitchCount |-> 0,
                     participant |-> <<p>>]
         /\ storage = [quizzes |-> SampleQuizzes, results |-> <<>>,
                       participants |->
                          IF variant = "local" THEN <<>>
                          ELSE <<participantEntry(quiz.code, p)>>]
    /\ timerSeq = 1
    /\ intervals = {1}
    /\ timeouts = 0
    /\ fetching = EmptyBag
    /\ submitting = EmptyBag
    /\ display = <<>>
    /\ alert = <<>>
    /\ event = <<>>
    /\ author = authorStart
    /\ hist = histStart

ScoreNext ==
    \/ submitQuizManual
    \/ tick
    \/ submitQuizResumeMemory
    \/ submitQuizResumeBackend

ScoreSpec == ScoreInit /\ [][ScoreNext]_vars

\* ------------------------------------------------- filling the join form
\* The join flow with every kind of form input, the blank ones included, and
\* the attempt run to its end by the countdown.
FormInputs == ParticipantInputs \cup BlankInputs

JoinNext ==
    \/ navigate
    \/ submitJoinCode
    \/ submitJoinDetailsFrom(FormInputs)
    \/ fetchQuizResumeMemory
    \/ fetchQuizJoined
    \/ fetchQuizResumeBackend
    \/ tick
    \/ submitQuizResumeMemory
    \/ submitQuizResumeBackend

JoinSpec == Init /\ [][JoinNext]_vars

\* ------------------------------------------------- entering the code
\* The join flow up to the start of the attempt: the code form, the details
\* form with the valid inputs, and fetchQuiz.
CodeNext ==
    \/ navigate
    \/ submitJoinCode
    \/ submitJoinDetails
    \/ fetchQuizResumeMemory
    \/ fetchQuizJoined
    \/ fetchQuizResumeBackend

CodeSpec == Init /\ [][CodeNext]_vars

\* ------------------------------------------------- starting the countdown
\* The join flow on a store whose one quiz has any time limit.  The quizzes
\* of the local variant carry no endTime; those the memory variant creates
\* always do (creation time + timeLimit seconds); what the backend sends is
\* the server's choice, and fetchQuiz provides for both.  endTime 0 is none.
StartInit ==
    /\ variant \in Variants
    /\ \E timeLimit \in 1..(MaxTime + 1) :
       \E endTime \in (CASE variant = "local" -> {0}
                         [] variant = "memory" -> {timeLimit * MsPerSecond}
                         [] variant = "backend" -> {0, timeLimit * MsPerSecond}) :
         storage = [quizzes |->
                       << [code |-> SampleQuizzes[1].code,
                           timeLimit |-> timeLimit, isActive |-> TRUE,
                           endTime |-> endTime,
                           questions |-> SampleQuestions(NumQuestions)] >>,
                    results |-> <<>>, participants |-> <<>>]
    /\ state = [currentPage |-> "landingPage",
                currentQuiz |-> <<>>,
                quizCode |-> <<>>,
                questions |-> <<>>,
                currentQuestionIndex |-> 0,
                answers |-> <<>>,
                timer |-> 0,
                timeRemaining |-> 0,
                tabSwitchCount |-> 0,
                participant |-> <<>>]
    /\ timerSeq = 0
    /\ intervals = {}
    /\ timeouts = 0
    /\ fetching = EmptyBag
    /\ submitting = EmptyBag
    /\ display = <<>>
    /\ alert = <<>>
    /\ event = <<>>
    /\ author = authorStart
    /\ hist = histStart

StartSpec == StartInit /\ [][CodeNext]_vars

\* ------------------------------------------------- answering an attempt
\* An attempt on the sample quiz as startQuiz leaves it (first question on
\* display, nothing answered), answered and navigated by the user and
\* submitted by the submit button or by the countdown; the user does not
\* press the button again while a submission is awaited.
AnswerInit ==
    /\ ScoreInit
    /\ state.answers = <<>>
    /\ state.currentQuestionIndex = 0

AnswerNext ==
    \/ clickOption
    \/ navigateQuestion
    \/ (submitting = EmptyBag /\ submitQuizManual)
    \/ (submitting = EmptyBag /\ tick)
    \/ submitQuizResumeMemory
    \/ submitQuizResumeBackend

AnswerSpec == AnswerInit /\ [][AnswerNext]_vars

\* ------------------------------------------------- calling selectOption
\* The attempt of AnswerSpec with selectOption also called directly, as any
\* script of the page can call the global function, with option indexes
\* from one below to one above those loadQuestion renders.
selectOptionCall ==
    /\ state.currentPage = "quizPage"
    /\ timerSeq <= MaxAnswered
    /\ \E optionIndex \in -1..NumOptions : selectOption(optionIndex)

CallNext ==
    \/ AnswerNext
    \/ selectOptionCall

CallSpec == AnswerInit /\ [][CallNext]_vars

\* ------------------------------------------------- watching the attempt
\* The attempt of AnswerSpec under the anti-cheat monitor: the page loses
\* and regains visibility while the user answers, and the monitor's forced
\* submit fires; the user leaves the submit button alone.
WatchNext ==
    \/ clickOption
    \/ navigateQuestion
    \/ visibilitychange
    \/ (submitting = EmptyBag /\ tick)
    \/ (submitting = EmptyBag /\ timeoutFire)
    \/ submitQuizResumeMemory
    \/ submitQuizResumeBackend

WatchSpec == AnswerInit /\ [][WatchNext]_vars

\* ------------------------------------------------- at the submit button
\* The attempt of AnswerSpec with the page losing visibility now and then,
\* up to the submission; the monitor's forced submit is left pending.
GateNext ==
    \/ AnswerNext
    \/ visibilitychange

GateSpec == AnswerInit /\ [][GateNext]_vars

\* ------------------------------------------------- clipboard and keyboard
\* The attempt of AnswerSpec run to its end by the countdown, with copy,
\* paste and key presses arriving during the attempt and after it.
ShortcutNext ==
    \/ clickOption
    \/ navigateQuestion
    \/ copy
    \/ paste
    \/ keydown
    \/ (submitting = EmptyBag /\ tick)
    \/ submitQuizResumeMemory
    \/ submitQuizResumeBackend

ShortcutSpec == AnswerInit /\ [][ShortcutNext]_vars

\* ------------------------------------------------- authoring quizzes
\* The dashboard of the creator: the create-test form is filled, tests are
\* created and deleted, next to the sample quiz already stored.
AuthorInit ==
    /\ variant \in Variants
    /\ state = [currentPage |-> "dashboardPage",
                currentQuiz |-> <<>>,
                quizCode |-> <<>>,
                questions |-> <<>>,
                currentQuestionIndex |-> 0,
                answers |-> <<>>,
                timer |-> 0,
                timeRemaining |-> 0,
                tabSwitchCount |-> 0,
                participant |-> <<>>]
    /\ timerSeq = 0
    /\ intervals = {}
    /\ timeouts = 0
    /\ fetching = EmptyBag
    /\ submitting = EmptyBag
    /\ storage = [quizzes |-> SampleQuizzes, results |-> <<>>,
                  participants |-> <<>>]
    /\ display = <<>>
    /\ alert = <<>>
    /\ event = <<>>
    /\ author = loggedIn(authorStart, SampleUsers[1])
    /\ hist = histStart

AuthorNext ==
    \/ addQuestion
    \/ deleteQuestion
    \/ addOption
    \/ deleteOption
    \/ handleCreateTest
    \/ handleCreateTestResume
    \/ deleteTest
    \/ deleteTestResume

AuthorSpec == AuthorInit /\ [][AuthorNext]_vars

\* ------------------------------------------------- counting down
\* The join flow on a quiz that carries no endTime, as the local variant
\* stores it and as the backend may send it, followed by the countdown.  The
\* timer of such a quiz starts from a constant, whatever the clock shows.
CountdownInit ==
    /\ StartInit
    /\ variant # "memory"
    /\ storage.quizzes[1].endTime = 0

CountdownNext ==
    \/ navigate
    \/ submitJoinCode
    \/ submitJoinDetails
    \/ fetchQuizJoined
    \/ fetchQuizResumeBackend
    \/ tick
    \/ submitQuizResumeBackend

CountdownSpec == CountdownInit /\ [][CountdownNext]_vars

\* ------------------------------------------------- a submission that fails
\* The attempt of AnswerSpec on a backend that may reject the submission or
\* lose the quiz to a deletion while the attempt runs.
RejectNext ==
    \/ AnswerNext
    \/ serverDeletesQuiz

RejectSpec == AnswerInit /\ [][RejectNext]_vars

\* ------------------------------------------------- starting over
\* The join flow of StartSpec on a quiz of the shortest time limit, followed
\* by the attempt itself: the user answers, leaves the tab once and submits,
\* and may join again afterwards or while an earlier join is still awaited.
RestartInit ==
    /\ StartInit
    /\ storage.quizzes[1].timeLimit = MaxTime

RestartNext ==
    \/ CodeNext
    \/ clickOption
    \/ (state.tabSwitchCount = 0 /\ visibilitychange)
    \/ (submitting = EmptyBag /\ submitQuizManual)
    \/ submitQuizResumeMemory
    \/ submitQuizResumeBackend

RestartSpec == RestartInit /\ [][RestartNext]_vars

\* ------------------------------------------------- one quiz, three scorers
\* An attempt in progress on any quiz of up to NumQuestions questions, each
\* with any of its options as the correct one, holding any answers object:
\* complete, partial or empty, with option indexes a direct selectOption call
\* can store, and with entries beyond the quiz's last question, as an attempt
\* restarted on a shorter quiz inherits them.  The attempt is then submitted.
QuestionLists ==
    UNION {[1..n -> [text : {0}, options : {NumOptions},
                     correctAnswer : 0..(NumOptions - 1)]] :
           n \in 1..NumQuestions}

AnyAnswerMaps ==
    UNION {[D -> -1..NumOptions] : D \in SUBSET (0..(NumQuestions - 1))}

EquivInit ==
    /\ variant \in Variants
    /\ \E answers \in AnyAnswerMaps, questions \in QuestionLists,
          form \in ParticipantInputs :
         LET quiz == [SampleQuizzes[1] EXCEPT !.questions = questions]
             p == [name |-> trim(form.name), roll |-> trim(form.roll),
                   branch |-> trim(form.branch)]
         IN
         /\ state = [currentPage |-> "quizPage",
                     currentQuiz |->
                        IF variant = "local"
                        THEN <<[timeLimit |-> quiz.timeLimit]>>
                        ELSE <<[code |-> quiz.code,
                                timeLimit |-> quiz.timeLimit,
                                isActive |-> quiz.isActive,
                                endTime |-> quiz.endTime]>>,
                     quizCode |-> quiz.code,
                     questions |-> IF variant = "local" THEN quiz.questions
                                   ELSE sanitize(quiz.questions),
                     currentQuestionIndex |-> 0,
                     answers |-> answers,
                     timer |-> 1,
                     timeRemaining |-> MaxTime,
                     tabSwitchCount |-> 0,
                     participant |-> <<p>>]
         /\ storage = [quizzes |-> <<quiz>>, results |-> <<>>,
                       participants |->
                          IF variant = "local" THEN <<>>
                          ELSE <<participantEntry(quiz.code, p)>>]
    /\ timerSeq = 1
    /\ intervals = {1}
    /\ timeouts = 0
    /\ fetching = EmptyBag
    /\ submitting = EmptyBag
    /\ display = <<>>
    /\ alert = <<>>
    /\ event = <<>>
    /\ author = authorStart
    /\ hist = histStart

EquivNext ==
    \/ (submitting = EmptyBag /\ submitQuizManual)
    \/ submitQuizResumeMemory
    \/ submitQuizResumeBackend

EquivSpec == EquivInit /\ [][EquivNext]_vars

\* ------------------------------------------------- viewing the results
\* The dashboard of a logged-in creator with two tests listed and up to
\* MaxSubmissions submissions stored, each for either test, with any score,
\* by its own participant, and time-stamped by a clock that does not run
\* backwards.  The creator opens the results of a test.
TestCodes == {generateQuizCode(n) : n \in QuizCodeDraws}

\* the answers array of a submission scored `score` on the sample quiz
answersScoring(score) ==
    [i \in 1..score |->
        [questionIndex |-> i - 1,
         selectedOption |-> SampleQuestions(NumQuestions)[i].correctAnswer]]

\* the time stamps of n submissions in a row: each falls into the same
\* millisecond as the one before it or into a later one
Timestamps(n) ==
    {[k \in 1..n |-> Cardinality({i \in 2..k : later[i]})] :
        later \in [2..n -> BOOLEAN]}

LeaderInit ==
    /\ variant \in Variants
    /\ state = [currentPage |-> "dashboardPage",
                currentQuiz |-> <<>>,
                quizCode |-> <<>>,
                questions |-> <<>>,
                currentQuestionIndex |-> 0,
                answers |-> <<>>,
                timer |-> 0,
                timeRemaining |-> 0,
                tabSwitchCount |-> 0,
                participant |-> <<>>]
    /\ timerSeq = 0
    /\ intervals = {}
    /\ timeouts = 0
    /\ fetching = EmptyBag
    /\ submitting = EmptyBag
    /\ \E n \in 0..MaxSubmissions :
       \E codes \in [1..n -> TestCodes], scores \in [1..n -> 0..NumQuestions],
          times \in Timestamps(n) :
         LET p(k) == [name |-> toString(k), roll |-> toString(k),
                      branch |-> <<"C", "S">>]
         IN  storage =
               [quizzes |->
                   <<[SampleQuizzes[1] EXCEPT !.code = generateQuizCode(123456)],
                     [SampleQuizzes[1] EXCEPT !.code = generateQuizCode(789012)]>>,
                results |->
                   [k \in 1..n |->
                       [quizCode |-> codes[k], name |-> p(k).name,
                        roll |-> p(k).roll, branch |-> p(k).branch,
                        score |-> scores[k], total |-> NumQuestions,
                        answers |-> answersScoring(scores[k]),
                        timestamp |-> times[k]]],
                participants |->
                   IF variant = "local" THEN <<>>
                   ELSE [k \in 1..n |-> participantEntry(codes[k], p(k))]]
    /\ display = <<>>
    /\ alert = <<>>
    /\ event = <<>>
    /\ author = [loggedIn(authorStart, SampleUsers[1]) EXCEPT
                    !.myQuizzes = <<generateQuizCode(123456),
                                    generateQuizCode(789012)>>]
    /\ hist = histStart

LeaderNext ==
    \/ viewResults
    \/ viewResultsResume

LeaderSpec == LeaderInit /\ [][LeaderNext]_vars

\* ------------------------------------------------- calls without a token
\* The dashboard of the backend variant on the mock backend, with the sample
\* quiz listed, a participant joined and a submission stored.  The token is
\* in localStorage, or it is gone: localStorage is shared by the tabs of the
\* browser, and a logout in another tab removes it while this dashboard
\* stays open.  The create-test form holds one question; the creator
\* creates, deletes and views tests.
TokenInit ==
    /\ variant = "backend"
    /\ state = [currentPage |-> "dashboardPage",
                currentQuiz |-> <<>>,
                quizCode |-> <<>>,
                questions |-> <<>>,
                currentQuestionIndex |-> 0,
                answers |-> <<>>,
                timer |-> 0,
                timeRemaining |-> 0,
                tabSwitchCount |-> 0,
                participant |-> <<>>]
    /\ timerSeq = 0
    /\ intervals = {}
    /\ timeouts = 0
    /\ fetching = EmptyBag
    /\ submitting = EmptyBag
    /\ \E form \in ParticipantInputs, score \in 0..NumQuestions :
         LET quiz == SampleQuizzes[1]
             p == [name |-> trim(form.name), roll |-> trim(form.roll),
                   branch |-> trim(form.branch)]
         IN  storage =
               [quizzes |-> SampleQuizzes,
                results |->
                   <<[quizCode |-> quiz.code, name |-> p.name,
                      roll |-> p.roll, branch |-> p.branch,
                      score |-> score, total |-> NumQuestions,
                      answers |-> answersScoring(score), timestamp |-> 0]>>,
                participants |-> <<participantEntry(quiz.code, p)>>]
    /\ display = <<>>
    /\ alert = <<>>
    /\ event = <<>>
    /\ \E session \in {<<>>, <<userData(SampleUsers[1])>>} :
         author = [loggedIn(authorStart, SampleUsers[1]) EXCEPT
                      !.session = session,
                      !.myQuizzes = <<SampleQuizzes[1].code>>,
                      !.questionCount = 1,
                      !.questions = <<[id |-> 1, options |-> 2]>>]
    /\ hist = histStart

TokenNext ==
    \/ handleCreateTest
    \/ handleCreateTestResume
    \/ deleteTest
    \/ deleteTestResume
    \/ viewResults
    \/ viewResultsResume

TokenSpec == TokenInit /\ [][TokenNext]_vars

\* ------------------------------------------------- logging in and out
\* The program as loaded, with the demo account stored: nobody is logged in,
\* or the DOMContentLoaded listener has restored state.currentUser from the
\* session an earlier visit saved in localStorage.  Users open the auth
\* forms, register, log in and log out, also while an earlier login or
\* registration is still awaited.
AccountInit ==
    /\ variant \in Variants
    /\ state = [currentPage |-> "landingPage",
                currentQuiz |-> <<>>,
                quizCode |-> <<>>,
                questions |-> <<>>,
                currentQuestionIndex |-> 0,
                answers |-> <<>>,
                timer |-> 0,
                timeRemaining |-> 0,
                tabSwitchCount |-> 0,
                participant |-> <<>>]
    /\ timerSeq = 0
    /\ intervals = {}
    /\ timeouts = 0
    /\ fetching = EmptyBag
    /\ submitting = EmptyBag
    /\ storage = [quizzes |-> SampleQuizzes, results |-> <<>>,
                  participants |-> <<>>]
    /\ display = <<>>
    /\ alert = <<>>
    /\ event = <<>>
    /\ author \in {authorStart, loggedIn(authorStart, SampleUsers[1])}
    /\ hist = histStart

AccountNext ==
    \/ openAuth
    \/ handleLogin
    \/ handleLoginResume
    \/ handleRegister
    \/ handleRegisterResume
    \/ handleLogout

AccountSpec == AccountInit /\ [][AccountNext]_vars

\* ------------------------------------------------- taking a created quiz
\* The creator fills the create-test form and creates tests next to the
\* sample quiz; a participant then joins by one of the codes a test can
\* get, and submits.  The form is filled until a test is created; one
\* attempt, with one fetchQuiz and one submitQuiz at a time, is followed.
CreatedCodeInputs == {generateQuizCode(n) : n \in QuizCodeDraws}

TakeNext ==
    \/ (/\ Len(storage.quizzes) + BagCardinality(author.requests)
              = Len(SampleQuizzes)
        /\ addQuestion)
    \/ deleteQuestion
    \/ handleCreateTest
    \/ handleCreateTestResume
    \/ (dashboard /\ navigate)
    \/ submitJoinCodeFrom(CreatedCodeInputs)
    \/ (timerSeq = 0 /\ fetching = EmptyBag /\ submitJoinDetails)
    \/ fetchQuizResumeMemory
    \/ fetchQuizJoined
    \/ fetchQuizResumeBackend
    \/ (submitting = EmptyBag /\ submitQuizManual)
    \/ submitQuizResumeMemory
    \/ submitQuizResumeBackend

TakeSpec == AuthorInit /\ [][TakeNext]_vars

\* ------------------------------------------------- showing a result
\* For every total up to MaxTotal and every score up to the total: an attempt
\* in progress on a quiz of that many questions with that many of them
\* answered correctly and the others left unanswered, and its submission.
PercentInit ==
    /\ variant \in Variants
    /\ \E total \in 1..MaxTotal, form \in ParticipantInputs :
       \E score \in 0..total :
         LET code == SampleQuizzes[1].code
             quiz == [code |-> code, timeLimit |-> MaxTime, isActive |-> TRUE,
                      endTime |-> EndTimeMs,
                      questions |-> SampleQuestions(total)]
             p == [name |-> trim(form.name), roll |-> trim(form.roll),
                   branch |-> trim(form.branch)]
         IN  /\ state = [currentPage |-> "quizPage",
                         currentQuiz |->
                            IF variant = "local"
                            THEN <<[timeLimit |-> quiz.timeLimit]>>
                            ELSE <<[code |-> quiz.code,
                                    timeLimit |-> quiz.timeLimit,
                                    isActive |-> quiz.isActive,
                                    endTime |-> quiz.endTime]>>,
                         quizCode |-> code,
                         questions |-> IF variant = "local" THEN quiz.questions
                                       ELSE sanitize(quiz.questions),
                         currentQuestionIndex |-> total - 1,
                         answers |-> [q \in 0..(score - 1) |->
                                         quiz.questions[q + 1].correctAnswer],
                         timer |-> 1,
                         timeRemaining |-> MaxTime,
                         tabSwitchCount |-> 0,
                         participant |-> <<p>>]
             /\ storage = [quizzes |-> <<quiz>>, results |-> <<>>,
                           participants |->
                              IF variant = "local" THEN <<>>
                              ELSE <<participantEntry(code, p)>>]
    /\ timerSeq = 1
    /\ intervals = {1}
    /\ timeouts = 0
    /\ fetching = EmptyBag
    /\ submitting = EmptyBag
    /\ display = <<>>
    /\ alert = <<>>
    /\ event = <<>>
    /\ author = authorStart
    /\ hist = histStart

PercentNext ==
    \/ submitQuizManual
    \/ submitQuizResumeMemory
    \/ submitQuizResumeBackend

PercentSpec == PercentInit /\ [][PercentNext]_vars

\* ------------------------------------------------------------ the claims
Active == state.currentPage = "quizPage"
Completed == state.currentPage = "resultsPage"

\* C1: submitQuiz takes effect at most once per attempt: no attempt ever has
\* more than one result recorded for it, whichever of the manual submit, the
\* countdown and the monitor's delayed forced submit fire.
SubmitAtMostOnce == hist.recorded <= 1

\* a submitQuiz(true) call, or the resumption of one, in any variant
forcedSubmitStep ==
    \/ timeoutFire
    \/ tick
    \/ submitQuizResumeMemory
    \/ submitQuizResumeBackend

\* C2: a submitQuiz(true) that runs after the results page is shown changes
\* neither the session state, nor the stored results, nor the score, total
\* and percentage on display.
SecondSubmitNoEffect ==
    [][(Completed /\ forcedSubmitStep)
          => (state' = state /\ storage' = storage /\ display' = display)]_vars

\* the number of entries of a stored answers array that hit the correct option
correctCount(questions, arr) ==
    Cardinality({k \in 1..Len(arr) :
        /\ arr[k].questionIndex + 1 \in 1..Len(questions)
        /\ arr[k].selectedOption
               = questions[arr[k].questionIndex + 1].correctAnswer})

\* C3: every stored result carries as score the number of questions whose
\* recorded option is the correct one of the quiz it was scored against (an
\* unanswered question counts 0), and as total the question count of that
\* quiz; the results page shows the score and total stored last.
ScoreIsCorrectCount ==
    /\ \A k \in 1..Len(storage.results) :
          LET r == storage.results[k]
          IN  \E q \in 1..Len(storage.quizzes) :
                /\ r.score = correctCount(storage.quizzes[q].questions, r.answers)
                /\ r.total = Len(storage.quizzes[q].questions)
    /\ (display # <<>>) =>
          /\ storage.results # <<>>
          /\ display[1].score = storage.results[Len(storage.results)].score
          /\ display[1].total = storage.results[Len(storage.results)].total

\* C3 happens: a partial answer set, one question answered correctly and
\* another left unanswered, has been scored 1 of NumQuestions
ScoredPartialAnswers ==
    \E k \in 1..Len(storage.results) :
        /\ Len(storage.results[k].answers) = 1
        /\ storage.results[k].score = 1
        /\ storage.results[k].total = NumQuestions

\* C4: in one attempt the countdown callback calls submitQuiz(true) at most
\* once
TimerSubmitsOnce == hist.timerSubmits <= 1

\* C5: in one attempt the monitor issues one forced-submit request at most
OneForcedRequest == hist.forcedRequests <= 1

\* C6: a forced submit of the monitor that reaches an attempt in progress
\* finds at least 3 visibility losses counted in it
ForcedSubmitNeedsThree ==
    [][(Active /\ timeoutFire) => state.tabSwitchCount >= 3]_vars

\* C7: every attempt that becomes Active eventually reaches Completed
ActiveLeadsToCompleted == Active ~> Completed

\* C8: timeRemaining is never negative
TimeRemainingNonNegative == state.timeRemaining >= 0

\* C9: the score stored and shown for an attempt is the score of the answers
\* as they were when submitQuiz passed the confirmation gate
FrozenAtGate == hist.frozen

\* C10: at most one countdown interval is live, and it is the one held in
\* state.timer
OneLiveInterval == intervals \subseteq {state.timer}

\* a fetchQuiz call that ends in its catch block
fetchQuizFails ==
    \/ (variant = "local" /\ submitJoinDetails /\ timerSeq' = timerSeq)
    \/ (fetchQuizResumeMemory /\ timerSeq' = timerSeq)
    \/ (fetchQuizJoined /\ BagCardinality(fetching') < BagCardinality(fetching))
    \/ (fetchQuizResumeBackend /\ timerSeq' = timerSeq)

\* C11: a fetchQuiz that fails leaves the session at the join page with no
\* countdown running and no partial attempt: currentQuiz, questions and
\* timeRemaining are untouched, and no participant is stored beyond those of
\* the joins that started an attempt or are still loading.
FailedJoinLeavesIdle ==
    [][fetchQuizFails =>
          /\ state'.currentPage = "joinPage"
          /\ intervals' = {}
          /\ state'.currentQuiz = state.currentQuiz
          /\ state'.questions = state.questions
          /\ state'.timeRemaining = state.timeRemaining
          /\ Len(storage'.participants)
                 <= timerSeq' + BagCardinality(fetching')]_vars

\* a submitQuiz call, or the resumption of one, that gets as far as saving
submitQuizSaves ==
    \/ (variant = "local" /\ (submitQuizManual \/ timeoutFire
                                \/ (tick /\ state'.timeRemaining <= 0)))
    \/ submitQuizResumeBackend

\* C12: when saving the attempt fails during the submit of an attempt in
\* progress, the session still reaches Completed and the results page shows
\* the score (the one computed from state.answers where the front end scores)
ScoreStandsWithoutSave ==
    [][(Active /\ state.participant # <<>> /\ submitQuizSaves
           /\ storage'.results = storage.results)
          => /\ Completed'
             /\ display' # <<>>
             /\ (variant = "local" =>
                    display'[1].score
                        = scoreLocal(state.questions, state.answers))]_vars

\* C13: while an attempt is in progress no question held in state.questions
\* carries the correct-option index, in every variant
QuestionsAreSanitized ==
    Active => \A i \in 1..Len(state.questions) :
                  "correctAnswer" \notin DOMAIN state.questions[i]

\* a participant with a field that is empty
blank(p) == p.name = <<>> \/ p.roll = <<>> \/ p.branch = <<>>

\* C14: details with a name, roll or branch that is empty after trimming do
\* not join: no attempt is in progress for such a participant and no such
\* participant is recorded
BlankDetailsDoNotJoin ==
    /\ (Active /\ state.participant # <<>>) => ~blank(state.participant[1])
    /\ \A k \in 1..Len(storage.participants) :
          ~blank(storage.participants[k])

\* the alert of submitJoinCode for a code of the wrong length
InvalidCodeAlert == showAlert("Please enter a valid 6-digit code", "error")

\* C15: a code whose trimmed length is not 6 is only reported: the step that
\* raises the error leaves the session state (state.quizCode and the page
\* included), the countdowns and the requests in flight as they were, and
\* state.quizCode never holds a code of another length than 6.
InvalidCodeRejected ==
    [][/\ Len(state'.quizCode) \in {0, 6}
       /\ (alert' = InvalidCodeAlert /\ alert # InvalidCodeAlert)
             => /\ state' = state
                /\ timerSeq' = timerSeq
                /\ intervals' = intervals
                /\ fetching' = fetching
                /\ storage' = storage]_vars

\* C15 happens: the error was raised on the join page while state.quizCode
\* held the valid code entered before
InvalidCodeReported ==
    /\ alert = InvalidCodeAlert
    /\ state.currentPage = "joinPage"
    /\ Len(state.quizCode) = 6

\* C16: during an attempt currentQuestionIndex lies in
\* [0, questions.length - 1]; navigateQuestion(-1) on the first question and
\* navigateQuestion(+1) on the last leave the session state as it is
CursorInRange ==
    Active =>
       LET index == state.currentQuestionIndex
           last == Len(state.questions) - 1
       IN  /\ index \in 0..last
           /\ index = 0 => loadQuestion(state, index - 1) = state
           /\ index = last => loadQuestion(state, index + 1) = state

\* C16 happens: the user has navigated to the last question
CursorOnLastQuestion ==
    /\ Active
    /\ state.currentQuestionIndex > 0
    /\ state.currentQuestionIndex = Len(state.questions) - 1

\* C17: the lifecycle only moves Idle -> Loading -> Active -> Submitting ->
\* Completed: a submitQuiz is suspended at its await (Submitting) only from
\* an attempt in progress, and a result is recorded and the results page
\* entered only for an attempt in progress at that moment
LifecycleOrder ==
    [][/\ BagCardinality(submitting') > BagCardinality(submitting) => Active
       /\ Len(storage'.results) > Len(storage.results) => Active
       /\ (Completed' /\ ~Completed) => Active]_vars

\* the attempt is in progress and no submitQuiz is suspended at its await
ActiveNotSubmitting == Active /\ submitting = EmptyBag

\* C18: a visibility change received while the session is not Active (Idle,
\* Loading, Submitting or Completed) changes nothing: the tab-switch counter
\* is unchanged, no warning is raised and no forced submit is scheduled
SignalsOnlyWhileActive ==
    [][(visibilitychange /\ ~ActiveNotSubmitting)
          => /\ state'.tabSwitchCount = state.tabSwitchCount
             /\ alert' = alert
             /\ timeouts' = timeouts]_vars

\* the score of an answer mapping: the questions it maps to their correct
\* option
mappingScore(questions, m) ==
    Cardinality({q \in DOMAIN m :
        /\ q + 1 \in 1..Len(questions)
        /\ m[q] = questions[q + 1].correctAnswer})

\* arr lists the mapping m: one entry per answered question
listsMapping(arr, m) ==
    /\ Len(arr) = Cardinality(DOMAIN m)
    /\ \A q \in DOMAIN m :
          \E k \in 1..Len(arr) :
              arr[k] = [questionIndex |-> q, selectedOption |-> m[q]]

\* C19: the score depends only on the answer mapping submitQuiz reads.
\* selectOption(o) sets the entry of the question on display to o and keeps
\* every other entry, so a re-selection replaces the earlier one;
\* navigateQuestion changes no entry; a stored score is the score of the
\* mapping as such (in the backend variant, of the answers array listing it).
ScoreOfFinalMapping ==
    [][/\ \A o \in 0..(NumOptions - 1) :
            selectOption(o) =>
                state'.answers =
                    [q \in DOMAIN state.answers \cup {state.currentQuestionIndex}
                        |-> IF q = state.currentQuestionIndex THEN o
                            ELSE state.answers[q]]
       /\ navigateQuestion => state'.answers = state.answers
       /\ (variant = "backend"
              /\ BagCardinality(submitting') > BagCardinality(submitting))
             => \E c \in BagToSet(submitting') :
                    /\ submitting' = submitting (+) SetToBag({c})
                    /\ listsMapping(c.answers, state.answers)
       /\ Len(storage'.results) > Len(storage.results)
             => LET r == storage'.results[Len(storage'.results)]
                    questions == SampleQuizzes[1].questions
                IN  IF variant = "backend"
                    THEN \E c \in BagToSet(submitting) :
                            /\ submitting' = submitting (-) SetToBag({c})
                            /\ r.score = correctCount(questions, c.answers)
                    ELSE r.score = mappingScore(questions, state.answers)]_vars

\* C19 happens: every question was answered and all of them correctly
AllAnsweredCorrectly ==
    \E k \in 1..Len(storage.results) :
        /\ Len(storage.results[k].answers) = NumQuestions
        /\ storage.results[k].score = NumQuestions

\* 100 * score / total rounded to the nearest integer, a half rounded up
roundedPercent(score, total) == (200 * score + total) \div (2 * total)

\* C20: the percentage on the results page is round(100 * score / total)
\* for every 0 <= score <= total, total >= 1
PercentageIsRounded ==
    display # <<>> =>
        display[1].percentage
            = roundedPercent(display[1].score, display[1].total)

\* C21: a successful join leaves the session Active with the countdown it
\* started running, and timeRemaining at the quiz's time limit, or at
\* max(0, deadline - now) in whole seconds when the quiz carries a deadline
JoinStartsCountdown ==
    [][timerSeq' = timerSeq + 1 =>
          LET quiz == storage.quizzes[1] IN
          /\ Active'
          /\ state'.timer \in intervals'
          /\ IF quiz.endTime = 0
             THEN state'.timeRemaining = quiz.timeLimit
             ELSE \E now \in NowInputs :
                     state'.timeRemaining
                         = Max(0, (quiz.endTime - now) \div MsPerSecond)]_vars

\* every entry of state.answers: a question of the attempt and one of the
\* options of that question
AnswersInRange ==
    \A q \in DOMAIN state.answers :
       /\ q \in 0..(Len(state.questions) - 1)
       /\ state.answers[q] \in 0..(state.questions[q + 1].options - 1)

\* C22: every entry of state.answers maps a question index of the attempt to
\* a valid index into that question's options: no step takes state.answers
\* out of range, and selectOption called with an option index out of range
\* changes nothing
AnswersStayInRange ==
    [][/\ AnswersInRange => AnswersInRange'
       /\ \A optionIndex \in {-1, NumOptions} :
             selectOption(optionIndex) => UNCHANGED state]_vars

\* C23: a manual submitQuiz whose confirmation is declined changes nothing:
\* the countdown keeps running, answers, cursor and tab-switch counter are as
\* before, no result is recorded and the session stays Active
DeclinedSubmitChangesNothing ==
    [][hist'.declined = hist.declined + 1 =>
          /\ Active'
          /\ state' = state
          /\ intervals' = intervals
          /\ timeouts' = timeouts
          /\ submitting' = submitting
          /\ storage' = storage
          /\ display' = display
          /\ alert' = alert]_vars

DeclinedWhileAnswering ==
    /\ Active
    /\ hist.declined = 1
    /\ hist.recorded = 0
    /\ DOMAIN state.answers # {}
    /\ state.currentQuestionIndex = NumQuestions - 1
    /\ state.tabSwitchCount > 0
    /\ state.timer \in intervals

\* the restricted shortcuts, as the chords the user presses:
\* F12, Ctrl+Shift+I, Ctrl+Shift+J, Ctrl+U
restricted(e) ==
    /\ e.type = "keydown"
    /\ \/ e.code = "F12"
       \/ (e.ctrlKey /\ e.shiftKey /\ e.code \in {"KeyI", "KeyJ"})
       \/ (e.ctrlKey /\ ~e.shiftKey /\ e.code = "KeyU")

\* C24: copy, paste and each restricted shortcut received while Active is
\* suppressed and raises a warning, and leaves the tab-switch counter, the
\* answers, the cursor, the remaining time and the lifecycle state unchanged
SignalsAreSuppressed ==
    [][(event' # event /\ Active
            /\ (event'[1].type \in {"copy", "paste"} \/ restricted(event'[1])))
          => /\ event'[1].defaultPrevented
             /\ alert' # <<>>
             /\ alert'[1].type = "warning"
             /\ state' = state]_vars

\* C25: each visibility-loss signal during Active increases tabSwitchCount by
\* exactly 1 and changes no other attempt field (answers, cursor,
\* timeRemaining); tabSwitchCount never decreases while the attempt is Active
TabSwitchesAreCounted ==
    [][/\ (Active /\ visibilitychange) =>
             /\ state'.tabSwitchCount = state.tabSwitchCount + 1
             /\ state'.answers = state.answers
             /\ state'.currentQuestionIndex = state.currentQuestionIndex
             /\ state'.timeRemaining = state.timeRemaining
       /\ (Active /\ Active') =>
             state'.tabSwitchCount >= state.tabSwitchCount]_vars

SwitchedWhileAnswering ==
    /\ Active
    /\ state.tabSwitchCount = 2
    /\ DOMAIN state.answers # {}
    /\ state.currentQuestionIndex = NumQuestions - 1

\* C26: no two stored quizzes share the same code, after any sequence of
\* quiz creations and deletions
UniqueQuizCodes ==
    \A i, j \in 1..Len(storage.quizzes) :
       i # j => storage.quizzes[i].code # storage.quizzes[j].code

\* C27: every question of every stored quiz has at least 2 options and a
\* correct-option index in [0, option count - 1]
StoredQuestionsWellFormed ==
    \A i \in 1..Len(storage.quizzes) :
       \A k \in 1..Len(storage.quizzes[i].questions) :
          LET q == storage.quizzes[i].questions[k] IN
          /\ q.options >= 2
          /\ q.correctAnswer \in 0..(q.options - 1)

\* C28: navigateQuestion changes only the cursor: state.answers,
\* timeRemaining and tabSwitchCount are unchanged by any navigateQuestion
\* call, including one that is rejected at a boundary
NavigationMovesOnlyCursor ==
    [][navigateQuestion =>
          /\ state' = [state EXCEPT !.currentQuestionIndex =
                                        state'.currentQuestionIndex]
          /\ state'.currentQuestionIndex \in 0..(Len(state.questions) - 1)
          /\ \/ state'.currentQuestionIndex = state.currentQuestionIndex + 1
             \/ state'.currentQuestionIndex = state.currentQuestionIndex - 1
             \/ state'.currentQuestionIndex = state.currentQuestionIndex]_vars

NavigatedBackWithAnswers ==
    /\ Active
    /\ state.currentQuestionIndex = 0
    /\ (NumQuestions - 1) \in DOMAIN state.answers
    /\ state.tabSwitchCount > 0
    /\ state.timeRemaining > 0

\* C29: while an attempt is Active, timeRemaining never increases, and each
\* countdown tick lowers it by exactly 1
CountdownOnlyFalls ==
    [][/\ (Active /\ Active') => state'.timeRemaining <= state.timeRemaining
       /\ (Active /\ tick) =>
             state'.timeRemaining = state.timeRemaining - 1]_vars

\* a submitQuiz resumes from its await and fails: the request is answered
\* and nothing is stored
submitQuizFailsLate ==
    /\ BagCardinality(submitting') < BagCardinality(submitting)
    /\ storage' = storage

\* C30: when submitQuiz fails after the confirmation gate, the attempt's
\* answers, participant and quiz code are unchanged and the session stays on
\* the quiz page, so that a later submitQuiz submits the same answers
FailedSubmitKeepsAttempt ==
    [][submitQuizFailsLate =>
          /\ state'.answers = state.answers
          /\ state'.participant = state.participant
          /\ state'.quizCode = state.quizCode
          /\ state'.currentPage = state.currentPage
          /\ alert'[1].type = "error"]_vars

ResubmittedAfterFailure ==
    /\ Active
    /\ alert = showAlert("Failed to submit quiz", "error")
    /\ DOMAIN state.answers # {}
    /\ \E c \in BagToSet(submitting) : c.answers = entries(state.answers)

\* C31: whenever startQuiz makes an attempt Active, the attempt starts
\* clean: no answers, the first question on display and no tab switch
\* counted, whatever happened in earlier attempts
AttemptStartsClean ==
    [][timerSeq' = timerSeq + 1 =>
          /\ Active'
          /\ state'.answers = <<>>
          /\ state'.currentQuestionIndex = 0
          /\ state'.tabSwitchCount = 0]_vars

\* C32: the three scoring implementations return the same score and total
\* for every quiz and every answer mapping: submitQuiz of the localStorage
\* variant, submitQuiz of the in-memory variant, and mockSubmitQuiz fed with
\* the answers array the backend variant's submitQuiz builds; the result a
\* submission records and shows is that common value
ScoringAgrees ==
    [][Len(storage'.results) = Len(storage.results) + 1 =>
          LET quiz == find(storage.quizzes, state.quizCode)[1]
              local == [score |-> scoreLocal(quiz.questions, state.answers),
                        totalQuestions |-> Len(quiz.questions)]
              memory == [score |-> scoreEntries(quiz.questions,
                                                entries(state.answers)),
                         totalQuestions |-> Len(quiz.questions)]
              backend == mockSubmitQuiz(storage.quizzes, state.quizCode,
                                        entries(state.answers))[1]
          IN  /\ local = memory
              /\ memory = backend
              /\ display' = shown(local.score, local.totalQuestions)]_vars

\* C32 happens: a submission has been scored 1 although its answers array
\* holds an entry beyond the last question of the quiz and an option index
\* no question offers
ScoredStrayEntries ==
    \E k \in 1..Len(storage.results) :
        LET r == storage.results[k] IN
        /\ r.score = 1
        /\ \E e \in 1..Len(r.answers) : r.answers[e].questionIndex >= r.total
        /\ \E e \in 1..Len(r.answers) : r.answers[e].selectedOption < 0

\* rows is the submissions list rearranged: by score descending, and among
\* equal scores the submission stored earlier first
isRanking(rows, submissions) ==
    LET n == Len(submissions) IN
    \E perm \in {f \in [1..n -> 1..n] :
                    \A i \in 1..n, j \in 1..n : f[i] = f[j] => i = j} :
        /\ rows = [i \in 1..n |->
                      [name |-> submissions[perm[i]].name,
                       score |-> submissions[perm[i]].score,
                       total |-> submissions[perm[i]].total,
                       time |-> submissions[perm[i]].timestamp]]
        /\ \A i \in 1..n, j \in 1..n :
              i < j => \/ rows[i].score > rows[j].score
                       \/ /\ rows[i].score = rows[j].score
                          /\ perm[i] < perm[j]

\* a viewResults(code) suspended at its await resumes
viewResultsResumed(code) ==
    \E c \in BagToSet(author.requests) :
        /\ c.op = "results"
        /\ c.code = code
        /\ author'.requests = author.requests (-) SetToBag({c})

\* C33: the leaderboard viewResults displays for a quiz code is a
\* permutation of exactly the submissions stored for that code, ordered by
\* score descending with equal scores in the order of submission, in every
\* variant; the stored submissions are left as they are
LeaderboardIsRanking ==
    [][\A code \in TestCodes :
          (/\ display' # display
           /\ viewResultsOf(code) \/ viewResultsResumed(code)) =>
             /\ isRanking(display'[1].leaderboard,
                          ofQuiz(storage.results, code))
             /\ storage' = storage]_vars

\* C33 happens: a leaderboard of three rows is on display, the top score
\* first and two equal scores behind it, in another order than stored
RankedThreeSubmissions ==
    /\ display # <<>>
    /\ Len(display[1].leaderboard) = MaxSubmissions
    /\ display[1].leaderboard[1].score > display[1].leaderboard[2].score
    /\ display[1].leaderboard[2].score = display[1].leaderboard[3].score
    /\ display[1].leaderboard[1].name # storage.results[1].name

\* a confirmed deleteTest(code) goes through: in the local variant the
\* handler itself, in the others its resumption from the await
deleteTestDone(code) ==
    \/ /\ variant = "local"
       /\ deleteTestOf(code, TRUE)
       /\ storage' # storage
    \/ /\ \E c \in BagToSet(author.requests) :
             /\ c.op = "delete"
             /\ c.code = code
             /\ author'.requests = author.requests (-) SetToBag({c})
       /\ alert' = showAlert("Test deleted successfully", "success")

\* C34: a confirmed deleteTest(code) removes the quiz with that code
\* together with all results, submissions and participants recorded for
\* it, and leaves every other quiz and its records unchanged
DeleteRemovesQuizAndRecords ==
    [][\A code \in TestCodes :
          deleteTestDone(code) =>
             /\ find(storage'.quizzes, code) = <<>>
             /\ ofQuiz(storage'.results, code) = <<>>
             /\ ofQuiz(storage'.participants, code) = <<>>
             /\ storage'.quizzes
                   = SelectSeq(storage.quizzes, LAMBDA q : q.code # code)
             /\ storage'.results = withoutQuiz(storage.results, code)
             /\ storage'.participants
                   = withoutQuiz(storage.participants, code)]_vars

\* what the mockBackend functions give back to the suspended call c
mockAnswers(c) ==
    CASE c.op = "create" ->
           {mockCreateQuiz(storage, [timeLimit |-> c.timeLimit,
                                     questions |-> c.questions],
                           c.token, generateQuizCode(n), now) :
               n \in QuizCodeDraws, now \in CreationTimes}
      [] c.op = "delete" -> {mockDeleteQuiz(storage, c.code, c.token)}
      [] c.op = "results" -> {mockGetLeaderboard(storage, c.code, c.token),
                              mockGetSummary(storage, c.code, c.token)}

\* C35: mockCreateQuiz, mockDeleteQuiz, mockGetLeaderboard and
\* mockGetSummary called without a token fail with Unauthorized and leave
\* the mock storage (quizzes, submissions, participants) unchanged; the
\* handler that called reports an error
CallsWithoutTokenFail ==
    [][\A c \in BagToSet(author.requests) :
          (/\ c.token = <<>>
           /\ author'.requests = author.requests (-) SetToBag({c})) =>
             /\ \A r \in mockAnswers(c) : r.error = "Unauthorized"
             /\ storage' = storage
             /\ display' = display
             /\ alert' # <<>>
             /\ alert'[1].type = "error"]_vars

\* C35 happens: the creator's request to delete the listed test was
\* answered Unauthorized, and the test with its records is still stored
DeleteWasUnauthorized ==
    /\ author.session = <<>>
    /\ alert = showAlert("Unauthorized", "error")
    /\ author.requests = EmptyBag
    /\ find(storage.quizzes, SampleQuizzes[1].code) # <<>>
    /\ storage.results # <<>>
    /\ author.myQuizzes # <<>>

\* no two accounts of the list share an email
uniqueEmails(users) ==
    \A i \in 1..Len(users), j \in 1..Len(users) :
        users[i].email = users[j].email => i = j

\* a registration with the form `form` runs to its end: in the local
\* variant the handler itself, in the others its resumption from the await
registerStep(form) ==
    \/ /\ variant = "local"
       /\ handleRegisterOf(form)
    \/ /\ variant # "local"
       /\ \E c \in BagToSet(author.requests) :
             /\ c.op = "register"
             /\ newUser(c) = newUser(form)
             /\ author'.requests = author.requests (-) SetToBag({c})

\* C36: a registration with an email that already belongs to a stored user
\* fails and leaves the user list and the current user unchanged; whenever
\* the user list changes, exactly one user with a new email has been added;
\* so no two stored users ever share an email
RegistrationKeepsEmailsUnique ==
    [][/\ \A form \in RegisterInputs :
             (/\ registerStep(form)
              /\ findUser(author.users, form.email) # <<>>) =>
                /\ author'.users = author.users
                /\ author'.currentUser = author.currentUser
                /\ author'.session = author.session
                /\ alert' # <<>>
                /\ alert'[1].type = "error"
       /\ author'.users # author.users =>
             \E form \in RegisterInputs :
                /\ registerStep(form)
                /\ findUser(author.users, form.email) = <<>>
                /\ author'.users = Append(author.users, newUser(form))
                /\ alert' = showAlert("Registration successful!", "success")
       /\ uniqueEmails(author'.users)]_vars

\* C36 happens: a second account is stored, and a registration with the
\* email of a stored account has just been refused
RefusedSecondRegistration ==
    /\ Len(author.users) = 2
    /\ alert # <<>>
    /\ alert[1].message \in {"User already exists",
                             "User already exists with this email"}

\* a login with the form `form` runs to its end: in the local variant the
\* handler itself, in the others its resumption from the await
loginStep(form) ==
    \/ /\ variant = "local"
       /\ handleLoginOf(form)
    \/ /\ variant # "local"
       /\ \E c \in BagToSet(author.requests) :
             /\ c.op = "login"
             /\ c.email = form.email
             /\ c.password = form.password
             /\ author'.requests = author.requests (-) SetToBag({c})

\* the stored accounts whose email and password are those of the form
matching(users, form) ==
    {i \in 1..Len(users) : /\ users[i].email = form.email
                           /\ users[i].password = form.password}

NoQuizWithoutQuestions ==
    [][ /\ (Len(author.questions) = 0 /\ handleCreateTest)
            => /\ alert' = showAlert("Please add at least one question",
                                     "error")
               /\ storage' = storage
               /\ author' = author
        /\ \A i \in 1..Len(storage'.quizzes) :
               Len(storage'.quizzes[i].questions) >= 1
        /\ display' # <<>>
            => /\ display'[1].total >= 1
               /\ display'[1].percentage \in 0..100 ]_vars

\* C38 witness: the creator created a test next to the sample quiz, a
\* participant joined it by its code and submitted, and the result shown
\* has the number of questions of the created test as its total
TookCreatedQuiz ==
    /\ Len(storage.quizzes) > Len(SampleQuizzes)
    /\ state.quizCode # SampleQuizzes[1].code
    /\ display # <<>>
    /\ display[1].total = Len(find(storage.quizzes, state.quizCode)[1].questions)

====
